---- MODULE Spec2Model ----
(***************************************************************************)
(* Client-side M-Pesa transaction orchestration of DotPayFE:               *)
(*   - the status poller of hooks/useMpesaFlows (pollTransaction,          *)
(*     stopPolling, getTransaction), and                                   *)
(*   - the Send flow of components/mpesa/MpesaSendModePage.tsx             *)
(*     (handleCreateQuote, signIntent, submitOnchainFunding,               *)
(*     handleConfirmAndSend, resetFlow).                                   *)
(* Strings that the code trims or matches against a regular expression are *)
(* sequences of one-character strings.  Time is in milliseconds.           *)
(***************************************************************************)
EXTENDS Integers, Sequences, FiniteSets, TLC

\* ------------------------------------------------------------------ bounds
MaxInterval == 2      \* largest intervalMs a caller of the poller passes
MaxTimeout == 3       \* largest timeoutMs a caller of the poller passes
LatencyMs == 120000   \* duration of a slow status fetch
MaxQuotes == 2        \* quotes obtained in one Send-flow session
MaxAttempts == 2      \* confirm-and-send attempts in one Send-flow session

\* --------------------------------------------------------------- constants
SendIntervalMs == 3500
SendTimeoutMs == 120000
HexDigits == 40
ARBITRUM_ONE == 42161
ARBITRUM_SEPOLIA == 421614

TxIds == {"tx-1", "tx-2"}   \* transaction ids the backend hands out
Calls == {"call-1", "call-2"} \* pollTransaction calls of one hook instance
\* initiated.transactionId, result.transactionId: the ids of the transactions the
\* settlement endpoints answer with.  The caller polls that id, whatever id the
\* quote it holds carries.
SettledIds == {"tx-2"}
SendCall == "call-1"        \* the call the Send flow's handleConfirmAndSend awaits

NoTx == [transactionId |-> "", status |-> ""]
NoKey == [prefix |-> "", uuid |-> 0]
NoHash == 0
NoChain == 0

\* ----------------------------------------------------------------- strings
Space == " "
DigitChars == {"0", "1", "2", "3", "4", "5", "6", "7", "8", "9"}
HexChars == DigitChars \cup {"a", "b", "c", "d", "e", "f", "A", "B", "C", "D", "E", "F"}

RECURSIVE TrimStart(_)
TrimStart(s) ==
    IF s # << >> /\ Head(s) = Space THEN TrimStart(Tail(s)) ELSE s

RECURSIVE TrimEnd(_)
TrimEnd(s) ==
    IF s # << >> /\ s[Len(s)] = Space THEN TrimEnd(SubSeq(s, 1, Len(s) - 1)) ELSE s

\* String.prototype.trim
Trim(s) == TrimEnd(TrimStart(s))

\* /^\d+$/.test(s)
IsDigitString(s) == Len(s) >= 1 /\ \A i \in 1..Len(s) : s[i] \in DigitChars

\* /^0x[a-fA-F0-9]{40}$/.test(s)
IsAddress(s) ==
    /\ Len(s) = 2 + HexDigits
    /\ s[1] = "0"
    /\ s[2] = "x"
    /\ \A i \in 3..Len(s) : s[i] \in HexChars

Repeat(ch, n) == [i \in 1..n |-> ch]

VARIABLES
    pollingRef,       \* useMpesaFlows: pollingRef.current, transaction id -> flag
    calls,            \* the pollTransaction calls: position, locals and return value
    callerOptions,    \* the options the callers of this instance pass
    queryCache        \* queryClient: ["mpesa", "transaction", id] -> the cached transaction

VARIABLES
    mode,               \* MpesaSendModePage prop: cashout | paybill | buygoods
    dotpayNetwork,      \* getDotPayNetwork(): sepolia | mainnet
    step,               \* useState<Step>
    pin,                \* useState: the PIN field
    form,               \* useState: amount, phoneNumber, paybillNumber, tillNumber, accountReference
    quoteTransaction,   \* useState<MpesaTransaction | null>
    resultTransaction,  \* useState<MpesaTransaction | null>
    busy,               \* useState(false)
    idempotencyKeyRef,  \* useRef<string | null>
    pc,                 \* the await at which the running handler is suspended
    att,                \* what the running handler captured and its locals
    toast,              \* the toast.error message of the latest handler run, "" if none
    transfers,          \* history: the sendOnchainTx calls made
    requests            \* history: the settlement requests sent

pollVars == <<pollingRef, calls, callerOptions, queryCache>>

VARIABLES
    topup             \* MpesaTopupPanel: its state, the running handler and its requests

topupVars == <<topup>>

VARIABLES
    built,            \* history: the buildMpesaAuthorizationMessage calls, arguments and result
    http,             \* mpesa-client request(): the response of the latest call and its outcome
    business,         \* businessFinanceAPI.withdrawToMpesa: the running call and its requests
    screen,           \* the BusinessWithdrawal screen: its state and its running handler
    backend           \* the screen's transactions at the backend, and its status fetches in flight

libVars == <<built, http, business, screen, backend>>

sendVars == <<mode, dotpayNetwork, step, pin, form, quoteTransaction, resultTransaction,
              busy, idempotencyKeyRef, pc, att, toast, transfers, requests>>

vars == <<pollVars, sendVars, topupVars, libVars>>

\* --------------------------------------------------------- status poller
\* MpesaTransactionStatus values a status fetch can return once a payment has
\* been submitted.
Statuses == {"mpesa_submitted", "mpesa_processing", "succeeded", "failed", "refunded"}

TERMINAL_STATUSES == {"succeeded", "failed", "refunded"}

IsTerminalOnlySucceeded(status) == status = "succeeded"

\* TERMINAL_STATUSES.includes(tx.status)
IsTerminal(status) == status \in TERMINAL_STATUSES

TimedOutInverted(elapsed, timeoutMs) == elapsed <= timeoutMs

TimedOutStrict(elapsed, timeoutMs) == elapsed > timeoutMs

\* Date.now() - startedAt >= timeoutMs
TimedOut(elapsed, timeoutMs) == elapsed >= timeoutMs

\* options?.intervalMs ?? 3500 and options?.timeoutMs ?? 2 * 60 * 1000; an option
\* the caller leaves out is written as a negative number.
OptionOr(value, default) == IF value < 0 THEN default ELSE value

FetchLatencies == {0, LatencyMs}

\* The Send flow's fetches take a quarter of its timeout or all of it: the poll
\* runs four rounds at most.
SendFetchLatencies == {LatencyMs \div 4, LatencyMs}

IdleCall ==
    [pc |-> "idle", transactionId |-> "", intervalMs |-> 0, timeoutMs |-> 0,
     elapsed |-> 0, fetches |-> 0, fetched |-> NoTx, result |-> NoTx,
     termAt |-> 0, exit |-> "", stopped |-> FALSE, cancelled |-> FALSE,
     onUpdate |-> FALSE, updates |-> 0, updated |-> NoTx]

InLoop(c) == calls[c].pc \in {"fetching", "sleeping"}
Running(c) == calls[c].pc \in {"fetching", "sleeping", "final"}

\* The state of call c after pollTransaction(id, options) has run up to its first
\* await: the flag is set, the loop condition holds, the first fetch is issued.
StartedCall(id, intervalMs, timeoutMs) ==
    [IdleCall EXCEPT !.pc = "fetching", !.transactionId = id,
                     !.intervalMs = intervalMs, !.timeoutMs = timeoutMs,
                     !.fetches = 1]

\* pollTransaction(id, options) up to its first await, on the poller's state.
PollStartEffect(c, id, options) ==
    /\ pollingRef' = [pollingRef EXCEPT ![id] = TRUE]
    /\ calls' = [calls EXCEPT ![c] =
           [StartedCall(id, OptionOr(options.intervalMs, 3500),
                        OptionOr(options.timeoutMs, 2 * 60 * 1000))
              EXCEPT !.onUpdate = options.onUpdate]]

\* A component other than the Send flow calls pollTransaction(id, options).
PollStart(c, id) ==
    /\ calls[c].pc = "idle"
    /\ PollStartEffect(c, id, callerOptions)
    /\ UNCHANGED <<callerOptions, queryCache, sendVars, topupVars, libVars>>

\* Call `call` once its fetch inside the loop has resolved after d ms with status
\* s and the code has run on to its next await (the sleep) or to a return.
FetchOutcome(call, s, d) ==
    LET tx == [transactionId |-> call.transactionId, status |-> s]
        \* if (options?.onUpdate) options.onUpdate(tx);
        me == IF call.onUpdate
              THEN [call EXCEPT !.updates = @ + 1, !.updated = tx]
              ELSE call
        now == me.elapsed + d
        seen == IF me.termAt = 0 /\ s \in {"succeeded", "failed", "refunded"}
                THEN me.fetches ELSE me.termAt
    IN  IF IsTerminal(s)
        THEN [me EXCEPT !.pc = "done", !.elapsed = now, !.fetched = tx,
                        !.result = tx, !.termAt = seen, !.exit = "terminal"]
        ELSE IF TimedOut(now, me.timeoutMs)
        THEN [me EXCEPT !.pc = "done", !.elapsed = now, !.fetched = tx,
                        !.result = tx, !.termAt = seen, !.exit = "timeout"]
        ELSE [me EXCEPT !.pc = "sleeping", !.elapsed = now, !.fetched = tx,
                        !.termAt = seen]

setQueryDataDropped(cache, tx) == cache

\* getTransaction: queryClient.setQueryData(["mpesa", "transaction", transactionId], data.data)
setQueryData(cache, tx) == [cache EXCEPT ![tx.transactionId] = tx]

\* pollingRef.current[transactionId] = false on both returns inside the loop
FlagAfter(out) ==
    IF out.pc = "done" THEN [pollingRef EXCEPT ![out.transactionId] = FALSE]
    ELSE pollingRef

FetchReturns(c) ==
    /\ calls[c].pc = "fetching"
    /\ \E s \in Statuses, d \in FetchLatencies :
         LET out == FetchOutcome(calls[c], s, d)
         IN  /\ calls' = [calls EXCEPT ![c] = out]
             /\ pollingRef' = FlagAfter(out)
             /\ queryCache' = setQueryData(queryCache, out.fetched)
    /\ UNCHANGED <<callerOptions, sendVars, topupVars, libVars>>

\* getTransaction rejects (request() throws): the await throws out of pollTransaction.
FetchFails(c) ==
    /\ calls[c].pc \in {"fetching", "final"}
    /\ calls' = [calls EXCEPT ![c] = [@ EXCEPT !.pc = "rejected", !.exit = "threw"]]
    /\ UNCHANGED <<pollingRef, callerOptions, queryCache, sendVars, topupVars, libVars>>

\* sleep(intervalMs) resolves; the while condition is evaluated: either the next
\* fetch of the loop is issued, or the loop is left and the fetch of the last
\* line is issued.
SleepDone(c) ==
    /\ calls[c].pc = "sleeping"
    /\ LET me == calls[c]
       IN  calls' = [calls EXCEPT ![c] =
             [me EXCEPT !.pc = IF pollingRef[me.transactionId] THEN "fetching" ELSE "final",
                        !.elapsed = me.elapsed + me.intervalMs,
                        !.fetches = me.fetches + 1]]
    /\ UNCHANGED <<pollingRef, callerOptions, queryCache, sendVars, topupVars, libVars>>

\* return getTransaction(transactionId) after the loop
FinalReturns(c) ==
    /\ calls[c].pc = "final"
    /\ \E s \in Statuses :
         LET me == calls[c]
             tx == [transactionId |-> me.transactionId, status |-> s]
             seen == IF me.termAt = 0 /\ s \in {"succeeded", "failed", "refunded"}
                     THEN me.fetches ELSE me.termAt
         IN  /\ calls' = [calls EXCEPT ![c] =
                   [me EXCEPT !.pc = "done", !.fetched = tx, !.result = tx,
                              !.termAt = seen, !.exit = "cancelled"]]
             /\ queryCache' = setQueryData(queryCache, tx)
    /\ UNCHANGED <<pollingRef, callerOptions, sendVars, topupVars, libVars>>

StopPolling(id) ==
    /\ pollingRef' = [pollingRef EXCEPT ![id] = FALSE]
    /\ calls' = [c \in Calls |->
          IF calls[c].pc = "sleeping" /\ calls[c].transactionId = id
          THEN [calls[c] EXCEPT !.stopped = TRUE, !.cancelled = TRUE]
          ELSE IF calls[c].pc = "fetching" /\ calls[c].transactionId = id
          THEN [calls[c] EXCEPT !.cancelled = TRUE]
          ELSE calls[c]]
    /\ UNCHANGED <<callerOptions, queryCache, sendVars, topupVars, libVars>>

\* What a caller passes: one of the two longest intervals up to MaxInterval, and a
\* timeout of zero or of MaxTimeout.
PollOptions ==
    {[intervalMs |-> i, timeoutMs |-> t, onUpdate |-> TRUE] :
        i \in (MaxInterval - 1)..MaxInterval, t \in {0, MaxTimeout}}

\* ------------------------------------------------------------- Send flow
SendModes == {"cashout", "paybill", "buygoods"}

Steps == {"form", "confirm", "processing", "receipt"}

FLOW_MAP == [cashout |-> "offramp", paybill |-> "paybill", buygoods |-> "buygoods"]

flowType == FLOW_MAP[mode]

\* "0x75faf114eafb1BDbe2F0316DF893fd58CE46AA4d"
USDC_ARBITRUM_SEPOLIA_ADDRESS ==
    <<"0", "x", "7", "5", "f", "a", "f", "1", "1", "4", "e", "a", "f", "b", "1", "B", "D", "b", "e", "2", "F", "0", "3", "1", "6", "D", "F", "8", "9", "3", "f", "d", "5", "8", "C", "E", "4", "6", "A", "A", "4", "d">>

\* "0xaf88d065e77c8cC2239327C5EDb3A432268e5831"
USDC_ARBITRUM_ONE_ADDRESS ==
    <<"0", "x", "a", "f", "8", "8", "d", "0", "6", "5", "e", "7", "7", "c", "8", "c", "C", "2", "2", "3", "9", "3", "2", "7", "C", "5", "E", "D", "b", "3", "A", "4", "3", "2", "2", "6", "8", "e", "5", "8", "3", "1">>

fallbackUsdcAddress ==
    IF dotpayNetwork = "sepolia" THEN USDC_ARBITRUM_SEPOLIA_ADDRESS
    ELSE USDC_ARBITRUM_ONE_ADDRESS

\* getDotPayUsdcChain(dotpayNetwork).id
usdcChainId == IF dotpayNetwork = "sepolia" THEN ARBITRUM_SEPOLIA ELSE ARBITRUM_ONE

NoOnchain ==
    [present |-> FALSE, required |-> FALSE, expectedAmountUnits |-> << >>,
     treasuryAddress |-> << >>, tokenAddress |-> << >>, chainId |-> NoChain]

NoQuoteTx == [transactionId |-> "", quoteId |-> 0, onchain |-> NoOnchain]

NoFunding == [onchainTxHash |-> NoHash, chainId |-> NoChain]

NoTransfer == [to |-> << >>, amountWei |-> << >>, address |-> << >>, chain |-> NoChain]

\* What buildMpesaAuthorizationMessage puts into the message of a Send attempt, as
\* far as the attempts differ in it.
NoAuthorization == [transactionId |-> "", quoteId |-> 0, signedAt |-> 0, nonce |-> 0]

AuthorizationOf(tx, signedAt, nonce) ==
    [transactionId |-> tx.transactionId, quoteId |-> tx.quoteId,
     signedAt |-> signedAt, nonce |-> nonce]

\* account.signMessage({ message }): the signature is that of the message.
NoSignature == [signed |-> NoAuthorization]

signIntent(tx, signedAt, nonce) == [signed |-> AuthorizationOf(tx, signedAt, nonce)]

createNonceFixed(n) == 1

\* createNonce(): crypto.randomUUID().replace(/-/g, ""), the n-th UUID drawn
createNonce(n) == n

\* new Date().toISOString() when attempt n starts: the clock has moved on since
\* the attempt before it.
toISOString(n) == 1700 + n

NoAttempt ==
    [no |-> 0, quote |-> NoQuoteTx, pin |-> << >>, fundingTx |-> NoTransfer,
     funding |-> NoFunding, initiated |-> "", heldKey |-> NoKey,
     signedAt |-> 0, nonce |-> 0, signature |-> NoSignature]

\* createIdempotencyKey(prefix): `${prefix}:${crypto.randomUUID()}`
createIdempotencyKey(prefix, uuid) == [prefix |-> prefix, uuid |-> uuid]

AlwaysNewKey(provided, prefix, uuid) == createIdempotencyKey(prefix, uuid)

\* extractBodyAndIdempotency(payload, prefix).idempotencyKey, where provided is
\* payload.idempotencyKey: String(provided || "").trim() || createIdempotencyKey(prefix)
extractIdempotencyKey(provided, prefix, uuid) ==
    IF provided # NoKey THEN provided ELSE createIdempotencyKey(prefix, uuid)

\* mpesaClient.initiateOfframp / initiatePaybill / initiateBuygoods
Endpoint(m) ==
    CASE m = "cashout" -> [path |-> "offramp/initiate", prefix |-> "offramp"]
      [] m = "paybill" -> [path |-> "merchant/paybill/initiate", prefix |-> "paybill"]
      [] m = "buygoods" -> [path |-> "merchant/buygoods/initiate", prefix |-> "buygoods"]

\* --- what the backend can answer to createQuote
TreasuryAddress == <<"0", "x">> \o Repeat("b", HexDigits)

GoodOnchain ==
    [present |-> TRUE, required |-> TRUE,
     expectedAmountUnits |-> <<"6", "5", "6", "0", "0", "0", "0">>,
     treasuryAddress |-> TreasuryAddress,
     tokenAddress |-> fallbackUsdcAddress,
     chainId |-> usdcChainId]

ExpectedAmountInputs ==
    {<< >>, <<" ", "6", "5", "6", " ">>, <<"6", ".", "5", "6">>, <<"-", "6", "5">>}

TreasuryInputs ==
    {<< >>, <<" ">> \o TreasuryAddress \o <<" ">>,
     <<"0", "x">> \o Repeat("b", HexDigits - 1) \o <<"g">>}

TokenInputs == {<< >>, <<"0", "x">> \o Repeat("c", HexDigits + 1)}

ChainInputs == {NoChain, usdcChainId + 1}

\* A quote that asks for funding: the well-formed descriptor, or one field of it
\* missing or malformed; and a quote that asks for none.
QuoteOnchains ==
    {GoodOnchain, NoOnchain, [GoodOnchain EXCEPT !.required = FALSE]}
    \cup {[GoodOnchain EXCEPT !.expectedAmountUnits = x] : x \in ExpectedAmountInputs}
    \cup {[GoodOnchain EXCEPT !.treasuryAddress = x] : x \in TreasuryInputs}
    \cup {[GoodOnchain EXCEPT !.tokenAddress = x] : x \in TokenInputs}
    \cup {[GoodOnchain EXCEPT !.chainId = x] : x \in ChainInputs}

\* --- the form
NoForm ==
    [amount |-> << >>, phoneNumber |-> << >>, paybillNumber |-> << >>,
     tillNumber |-> << >>, accountReference |-> << >>]

GoodForm ==
    [amount |-> <<"1", "0", "0", "0">>,
     phoneNumber |-> <<"2", "5", "4", "7", "1", "2", "3", "4", "5", "6", "7", "8">>,
     paybillNumber |-> <<"4", "0", "0", "2", "0", "0">>,
     tillNumber |-> <<"5", "0", "8", "5", "0", "8">>,
     accountReference |-> <<"I", "n", "v">>]

FormInputs == {GoodForm, [GoodForm EXCEPT !.amount = <<"0">>]}

\* What a user may type: the good form with one field changed.
FormTrials ==
    FormInputs
    \cup {[GoodForm EXCEPT !.amount = x] : x \in {<< >>, <<"-", "5">>, <<"1", "e">>}}
    \cup {[GoodForm EXCEPT !.phoneNumber = x] :
            x \in {<<" ">> \o GoodForm.phoneNumber \o <<" ">>,
                   <<"0", "7", "1", "2", "3", "4", "5", "6", "7", "8">>,
                   GoodForm.phoneNumber \o <<"9">>}}
    \cup {[GoodForm EXCEPT !.paybillNumber = x] :
            x \in {<<"4", "0", "0", "2">>, <<"4", "0", "0", "2", "0", "0", "1", "2", "3">>,
                   <<"4", "0", "0", "2", "0", "0", " ">>}}
    \cup {[GoodForm EXCEPT !.accountReference = x] : x \in {<<"I">>, <<" ", "I", " ">>}}
    \cup {[GoodForm EXCEPT !.tillNumber = x] :
            x \in {<<"5", "0", "8", "5", "x">>, <<" ", "5", "0", "8", "5", "0", "8">>}}

RECURSIVE DigitsValue(_)
DigitsValue(s) ==
    IF s = << >> THEN 0
    ELSE 10 * DigitsValue(SubSeq(s, 1, Len(s) - 1))
         + (CHOOSE d \in 0..9 : ToString(d) = s[Len(s)])

\* Number(amount) for the inputs of a type="number" field: NaN is finite |-> FALSE
NumberOf(s) ==
    LET t == Trim(s)
    IN  IF t = << >> THEN [finite |-> TRUE, value |-> 0]
        ELSE IF IsDigitString(t) THEN [finite |-> TRUE, value |-> DigitsValue(t)]
        ELSE IF Head(t) = "-" /\ IsDigitString(Tail(t))
             THEN [finite |-> TRUE, value |-> 0 - DigitsValue(Tail(t))]
        ELSE [finite |-> FALSE, value |-> 0]

\* /^\d{5,8}$/.test(s)
IsShortCode(s) == IsDigitString(s) /\ Len(s) >= 5 /\ Len(s) <= 8

\* /^254\d{9}$/.test(s)
IsKenyanMsisdn(s) ==
    /\ Len(s) = 12
    /\ IsDigitString(s)
    /\ SubSeq(s, 1, 3) = <<"2", "5", "4">>

targetFieldValid(m, f) ==
    CASE m = "cashout" -> IsKenyanMsisdn(Trim(f.phoneNumber))
      [] m = "paybill" -> IsShortCode(Trim(f.paybillNumber)) /\ Len(Trim(f.accountReference)) >= 2
      [] OTHER -> IsShortCode(Trim(f.tillNumber))

canQuoteAmountOnly(m, f) ==
    /\ NumberOf(f.amount).finite
    /\ NumberOf(f.amount).value > 0

canQuote(m, f) ==
    /\ NumberOf(f.amount).finite
    /\ NumberOf(f.amount).value > 0
    /\ targetFieldValid(m, f)

\* --- submitOnchainFunding
RequiredWhenPresent(tx) == tx.onchain.present

Required(tx) == tx.onchain.present /\ tx.onchain.required

\* The four locals submitOnchainFunding reads off the quote.
fundingParams(tx) ==
    [expectedAmountUnits |-> Trim(tx.onchain.expectedAmountUnits),
     treasuryAddress |-> Trim(tx.onchain.treasuryAddress),
     tokenAddress |-> IF Trim(tx.onchain.tokenAddress) # << >>
                      THEN Trim(tx.onchain.tokenAddress) ELSE fallbackUsdcAddress,
     chainId |-> IF tx.onchain.chainId # NoChain THEN tx.onchain.chainId ELSE usdcChainId]

fundingErrorNoChecks(tx) == ""

\* The message of the Error submitOnchainFunding throws before it builds the
\* transfer, "" when it throws none.
fundingError(tx) ==
    LET p == fundingParams(tx)
    IN  IF ~IsDigitString(p.expectedAmountUnits)
        THEN "Quote is missing the required USDC funding amount."
        ELSE IF ~IsAddress(p.treasuryAddress)
        THEN "Treasury address is not configured correctly."
        ELSE IF ~IsAddress(p.tokenAddress)
        THEN "USDC contract address is not configured correctly."
        ELSE IF p.chainId # usdcChainId
        THEN "Wrong chain for funding."
        ELSE ""

\* transfer({ contract: getContract({ chain: usdcChain, address: tokenAddress }),
\*            to: treasuryAddress, amountWei: BigInt(expectedAmountUnits) })
transferOf(tx) ==
    [to |-> fundingParams(tx).treasuryAddress,
     amountWei |-> fundingParams(tx).expectedAmountUnits,
     address |-> fundingParams(tx).tokenAddress,
     chain |-> usdcChainId]

\* History is all that tells one quote id, one UUID or one attempt from another:
\* a new one is the first that nothing recorded or held carries.
SetMax(S) == CHOOSE m \in S \cup {0} : \A x \in S : x <= m

NewQuoteId ==
    1 + SetMax({r.quoteId : r \in requests} \cup {t.quoteId : t \in transfers}
               \cup {quoteTransaction.quoteId, att.quote.quoteId})

randomUUID(n) ==
    n + SetMax({r.idempotencyKey.uuid : r \in requests} \cup {idempotencyKeyRef.uuid})

NewAttemptNo ==
    1 + SetMax({r.attempt : r \in requests} \cup {t.attempt : t \in transfers})

\* The message of an Error the environment throws into the handler (a rejected
\* signature, wallet call or request).
ThrownMessage == "Failed to submit transaction."

\* catch { toast.error(err.message); setStep("confirm") } finally { setBusy(false) }:
\* the handler ends.
CatchAndEnd(message) ==
    /\ toast' = message
    /\ step' = "confirm"
    /\ busy' = FALSE
    /\ pc' = "idle"
    /\ att' = NoAttempt

\* From `setProcessingLabel("Submitting M-Pesa request")` to the await of
\* initiateOfframp / initiatePaybill / initiateBuygoods: the key is read (or made),
\* the client takes it out of the payload and sends the request.
SubmitSettlement(funding) ==
    LET idempotencyKey ==
            IF idempotencyKeyRef # NoKey THEN idempotencyKeyRef
            ELSE createIdempotencyKey(flowType, randomUUID(1))
        header == extractIdempotencyKey(idempotencyKey, Endpoint(mode).prefix, randomUUID(2))
        \* const signature = await signIntent(quoteTransaction, signedAt, nonce)
        signature == IF pc = "signing"
                     THEN signIntent(att.quote, att.signedAt, att.nonce)
                     ELSE att.signature
    IN  /\ idempotencyKeyRef' = idempotencyKey
        /\ requests' = requests \cup
              {[attempt |-> att.no, path |-> Endpoint(mode).path,
                idempotencyKey |-> header, quoteId |-> att.quote.quoteId,
                required |-> Required(att.quote),
                onchainTxHash |-> funding.onchainTxHash, chainId |-> funding.chainId,
                signature |-> signature, signedAt |-> att.signedAt, nonce |-> att.nonce,
                held |-> quoteTransaction # NoQuoteTx]}
        /\ att' = [NoAttempt EXCEPT !.no = att.no, !.heldKey = att.heldKey,
                                     !.quote = [att.quote EXCEPT !.onchain = NoOnchain]]
        /\ pc' = "settle"
        /\ UNCHANGED <<step, busy, toast>>

\* --- the handlers
PinInputs == {<<"1", "2">>, <<"1", "2", "3", "4">>}

\* onChange of a form input (rendered in the form step only)
EditForm(f) ==
    /\ step = "form"
    /\ form # f
    /\ form' = f
    /\ UNCHANGED <<libVars, topup, mode, dotpayNetwork, toast, step, pin, quoteTransaction, resultTransaction,
                   busy, idempotencyKeyRef, pc, att, transfers, requests>>
    /\ UNCHANGED pollVars

\* onChange of the PIN input (rendered when step === "confirm" && quoteTransaction)
SetPin(p) ==
    /\ step = "confirm"
    /\ quoteTransaction # NoQuoteTx
    /\ pin # p
    /\ pin' = p
    /\ UNCHANGED <<libVars, topup, mode, dotpayNetwork, toast, step, form, quoteTransaction, resultTransaction,
                   busy, idempotencyKeyRef, pc, att, transfers, requests>>
    /\ UNCHANGED pollVars

\* The Continue button (disabled={busy || !canQuote}) runs handleCreateQuote up to
\* `await createQuote(payload)`.
HandleCreateQuote ==
    /\ step = "form"
    /\ ~busy
    /\ canQuote(mode, form)
    /\ NewQuoteId <= MaxQuotes
    /\ busy' = TRUE
    /\ toast' = ""
    /\ pc' = "createQuote"
    /\ UNCHANGED <<libVars, topup, mode, dotpayNetwork, step, pin, form, quoteTransaction, resultTransaction,
                   idempotencyKeyRef, att, transfers, requests>>
    /\ UNCHANGED pollVars

\* createQuote resolves with a transaction of the backend's making.
CreateQuoteReturns ==
    /\ pc = "createQuote"
    /\ \E oc \in QuoteOnchains :
         quoteTransaction' =
             [transactionId |-> "tx-1", quoteId |-> NewQuoteId, onchain |-> oc]
    /\ step' = "confirm"
    /\ idempotencyKeyRef' = createIdempotencyKey(flowType, randomUUID(1))
    /\ busy' = FALSE
    /\ pc' = "idle"
    /\ UNCHANGED <<libVars, topup, mode, dotpayNetwork, toast, pin, form, resultTransaction, att, transfers, requests>>
    /\ UNCHANGED pollVars

\* createQuote rejects: toast, finally setBusy(false).
CreateQuoteFails ==
    /\ pc = "createQuote"
    /\ toast' = "Failed to create quote."
    /\ busy' = FALSE
    /\ pc' = "idle"
    /\ UNCHANGED <<libVars, topup, mode, dotpayNetwork, step, pin, form, quoteTransaction, resultTransaction,
                   idempotencyKeyRef, att, transfers, requests>>
    /\ UNCHANGED pollVars

\* The Confirm and Send button (rendered when step === "confirm" && quoteTransaction,
\* disabled={busy || pin.length < 4}) runs handleConfirmAndSend up to
\* `await signIntent(...)`.
HandleConfirmAndSend ==
    /\ step = "confirm"
    /\ quoteTransaction # NoQuoteTx
    /\ ~busy
    /\ quoteTransaction.quoteId # 0
    /\ Len(pin) >= 4
    /\ NewAttemptNo <= MaxAttempts
    /\ busy' = TRUE
    /\ toast' = ""
    /\ step' = "processing"
    /\ pc' = "signing"
    /\ att' = [NoAttempt EXCEPT !.no = NewAttemptNo, !.quote = quoteTransaction,
                                 !.pin = pin, !.heldKey = idempotencyKeyRef,
                                 !.signedAt = toISOString(NewAttemptNo),
                                 !.nonce = createNonce(NewAttemptNo)]
    /\ UNCHANGED <<libVars, topup, mode, dotpayNetwork, pin, form, quoteTransaction, resultTransaction,
                   idempotencyKeyRef, transfers, requests>>
    /\ UNCHANGED pollVars

\* signIntent throws (no wallet account) or account.signMessage rejects.
SignFails ==
    /\ pc = "signing"
    /\ CatchAndEnd(ThrownMessage)
    /\ UNCHANGED <<libVars, topup, mode, dotpayNetwork, pin, form, quoteTransaction, resultTransaction,
                   idempotencyKeyRef, transfers, requests>>
    /\ UNCHANGED pollVars

\* The signature arrives; submitOnchainFunding(quoteTransaction) runs to its throw,
\* to `await sendOnchainTx(fundingTx)`, or (nothing to fund) the handler runs on to
\* the settlement request.
SignReturns ==
    /\ pc = "signing"
    /\ IF ~Required(att.quote)
       THEN /\ SubmitSettlement(NoFunding)
            /\ UNCHANGED transfers
       ELSE IF fundingError(att.quote) # ""
       THEN /\ CatchAndEnd(fundingError(att.quote))
            /\ UNCHANGED <<idempotencyKeyRef, transfers, requests>>
       ELSE /\ transfers' = transfers \cup
                  {[attempt |-> att.no, quoteId |-> att.quote.quoteId,
                    status |-> "submitted", transactionHash |-> NoHash]}
            /\ att' = [att EXCEPT !.fundingTx = transferOf(att.quote),
                                  !.signature = signIntent(att.quote, att.signedAt, att.nonce)]
            /\ pc' = "sendTx"
            /\ UNCHANGED <<step, busy, toast, idempotencyKeyRef, requests>>
    /\ UNCHANGED <<libVars, topup, mode, dotpayNetwork, pin, form, quoteTransaction, resultTransaction>>
    /\ UNCHANGED pollVars

\* The transfer this attempt handed to sendOnchainTx.
MyTransfer == CHOOSE t \in transfers : t.attempt = att.no

Record(t, status, hash) ==
    (transfers \ {t}) \cup {[t EXCEPT !.status = status, !.transactionHash = hash]}

\* sendOnchainTx resolves: the wallet has broadcast the transfer; waitForReceipt is
\* awaited with its hash.
SendTxReturns ==
    /\ pc = "sendTx"
    /\ transfers' = Record(MyTransfer, "sent", att.no)
    /\ att' = [att EXCEPT !.funding = [onchainTxHash |-> att.no, chainId |-> NoChain]]
    /\ pc' = "waitReceipt"
    /\ UNCHANGED <<libVars, topup, mode, dotpayNetwork, toast, step, pin, form, quoteTransaction, resultTransaction,
                   busy, idempotencyKeyRef, requests>>
    /\ UNCHANGED pollVars

\* sendOnchainTx rejects (the wallet refuses, the network drops).
SendTxFails ==
    /\ pc = "sendTx"
    /\ transfers' = Record(MyTransfer, "rejected", NoHash)
    /\ CatchAndEnd(ThrownMessage)
    /\ UNCHANGED <<libVars, topup, mode, dotpayNetwork, pin, form, quoteTransaction, resultTransaction,
                   idempotencyKeyRef, requests>>
    /\ UNCHANGED pollVars

ReceiptFailsIgnored ==
    /\ pc = "waitReceipt"
    /\ transfers' = Record(MyTransfer, "unconfirmed", att.funding.onchainTxHash)
    /\ SubmitSettlement([onchainTxHash |-> att.funding.onchainTxHash,
                         chainId |-> fundingParams(att.quote).chainId])
    /\ UNCHANGED <<libVars, topup, mode, dotpayNetwork, toast, pin, form, quoteTransaction, resultTransaction>>
    /\ UNCHANGED pollVars

\* waitForReceipt resolves: submitOnchainFunding returns { onchainTxHash, chainId }
\* and the handler runs on to the settlement request.
ReceiptReturns ==
    /\ pc = "waitReceipt"
    /\ transfers' = Record(MyTransfer, "confirmed", att.funding.onchainTxHash)
    /\ SubmitSettlement([onchainTxHash |-> att.funding.onchainTxHash,
                         chainId |-> fundingParams(att.quote).chainId])
    /\ UNCHANGED <<libVars, topup, mode, dotpayNetwork, toast, pin, form, quoteTransaction, resultTransaction>>
    /\ UNCHANGED pollVars

\* waitForReceipt rejects.
ReceiptFails ==
    /\ pc = "waitReceipt"
    /\ transfers' = Record(MyTransfer, "unconfirmed", att.funding.onchainTxHash)
    /\ CatchAndEnd(ThrownMessage)
    /\ UNCHANGED <<libVars, topup, mode, dotpayNetwork, pin, form, quoteTransaction, resultTransaction,
                   idempotencyKeyRef, requests>>
    /\ UNCHANGED pollVars

\* The settlement call resolves with the initiated transaction; pollTransaction is
\* called with its id and { intervalMs: 3500, timeoutMs: 120000 }.
SettleReturns ==
    /\ pc = "settle"
    /\ \E id \in SettledIds :
         /\ PollStartEffect(SendCall, id,
                            [intervalMs |-> SendIntervalMs, timeoutMs |-> SendTimeoutMs, onUpdate |-> FALSE])
         /\ att' = [att EXCEPT !.initiated = id]
    /\ pc' = "poll"
    /\ UNCHANGED <<libVars, topup, mode, dotpayNetwork, toast, step, pin, form, quoteTransaction, resultTransaction,
                   busy, idempotencyKeyRef, transfers, requests>>
    /\ UNCHANGED <<callerOptions, queryCache>>

\* The settlement call rejects (invalid PIN, expired quote, network failure).
SettleFails ==
    /\ pc = "settle"
    /\ CatchAndEnd(ThrownMessage)
    /\ UNCHANGED <<libVars, topup, mode, dotpayNetwork, pin, form, quoteTransaction, resultTransaction,
                   idempotencyKeyRef, transfers, requests>>
    /\ UNCHANGED pollVars

\* A status fetch of the awaited pollTransaction resolves.  When that ends the
\* poll, the handler runs on: setResultTransaction(terminal); setStep("receipt");
\* finally setBusy(false).
PollFetchReturns ==
    /\ pc = "poll"
    /\ calls[SendCall].pc = "fetching"
    /\ \E s \in Statuses, d \in SendFetchLatencies :
         LET out == FetchOutcome(calls[SendCall], s, d)
         IN  /\ pollingRef' = FlagAfter(out)
             /\ queryCache' = setQueryData(queryCache, out.fetched)
             /\ IF out.pc = "done"
                THEN /\ calls' = [calls EXCEPT ![SendCall] = IdleCall]
                     /\ resultTransaction' = out.result
                     /\ step' = "receipt"
                     /\ busy' = FALSE
                     /\ pc' = "idle"
                     /\ att' = NoAttempt
                ELSE /\ calls' = [calls EXCEPT ![SendCall] = out]
                     /\ UNCHANGED <<resultTransaction, step, busy, pc, att>>
    /\ UNCHANGED <<libVars, topup, mode, dotpayNetwork, toast, pin, form, quoteTransaction, idempotencyKeyRef,
                   transfers, requests>>
    /\ UNCHANGED callerOptions

\* A status fetch of the awaited pollTransaction rejects: pollTransaction rejects
\* and the handler's catch runs.
PollFetchFails ==
    /\ pc = "poll"
    /\ calls[SendCall].pc = "fetching"
    /\ CatchAndEnd(ThrownMessage)
    /\ calls' = [calls EXCEPT ![SendCall] = IdleCall]
    /\ UNCHANGED <<libVars, topup, mode, dotpayNetwork, pin, form, quoteTransaction, resultTransaction,
                   idempotencyKeyRef, transfers, requests>>
    /\ UNCHANGED <<pollingRef, callerOptions, queryCache>>

\* The "Refresh status" button: rendered while step === "processing", disabled
\* while busy; handleManualRefresh returns at once when neither the result nor the
\* quote has a transactionId.  The page is busy throughout the processing step
\* (RefreshNeverEnabled), so the handler never runs and has no action here.
handleManualRefreshEnabled ==
    /\ step = "processing"
    /\ ~busy
    /\ resultTransaction # NoTx \/ quoteTransaction # NoQuoteTx

ResetFlowAbandons ==
    /\ step # "form"
    /\ step' = "form"
    /\ pin' = << >>
    /\ quoteTransaction' = NoQuoteTx
    /\ resultTransaction' = NoTx
    /\ idempotencyKeyRef' = NoKey
    /\ busy' = FALSE
    /\ pc' = "idle"
    /\ att' = NoAttempt
    /\ UNCHANGED <<libVars, topup, mode, dotpayNetwork, toast, form, transfers, requests>>
    /\ UNCHANGED pollVars

ResetFlowIdles ==
    /\ step \in Steps \ {"form"}
    /\ step' = "form"
    /\ pin' = << >>
    /\ quoteTransaction' = NoQuoteTx
    /\ resultTransaction' = NoTx
    /\ idempotencyKeyRef' = NoKey
    /\ busy' = FALSE
    /\ UNCHANGED <<libVars, topup, mode, dotpayNetwork, toast, form, pc, att, transfers, requests>>
    /\ UNCHANGED pollVars

\* The header button (onClick={step === "form" ? onBack : resetFlow}, never disabled).
ResetFlow ==
    /\ step \in Steps \ {"form"}
    /\ step' = "form"
    /\ pin' = << >>
    /\ quoteTransaction' = NoQuoteTx
    /\ resultTransaction' = NoTx
    /\ idempotencyKeyRef' = NoKey
    /\ UNCHANGED <<libVars, topup, mode, dotpayNetwork, toast, form, busy, pc, att, transfers, requests>>
    /\ UNCHANGED pollVars

\* ------------------------------------------------------------ Top-up flow
\* MpesaTopupPanel: handleQuote and handleStartTopup.  Its refreshStatus button is
\* rendered at step "processing" only, with disabled={busy}, and busy is true
\* for as long as that step lasts: refreshStatus never runs.
TopupCall == "call-1"       \* the pollTransaction call handleStartTopup awaits

OnrampEndpoint == [path |-> "onramp/stk/initiate", prefix |-> "onramp"]

NoTopupQuote == [transactionId |-> "", quoteId |-> 0]

NoTopupAttempt == [no |-> 0, quoteId |-> 0, initiated |-> ""]

InitialTopup ==
    [step |-> "form", busy |-> FALSE, canContinue |-> FALSE,
     quoteTx |-> NoTopupQuote, resultTx |-> NoTx,
     pc |-> "idle", att |-> NoTopupAttempt, requests |-> {}]

NewTopupAttemptNo == 1 + SetMax({r.attempt : r \in topup.requests})

topupUUID == 1 + SetMax({r.idempotencyKey.uuid : r \in topup.requests})

\* catch { toast.error(...); setStep("confirm") } finally { setBusy(false) }
TopupCatchAndEnd ==
    [topup EXCEPT !.step = "confirm", !.busy = FALSE, !.pc = "idle",
                  !.att = NoTopupAttempt]

\* onChange of the amount and phone inputs, by what it makes of canContinue
TopupEditForm(ok) ==
    /\ topup.step = "form"
    /\ topup.canContinue # ok
    /\ topup' = [topup EXCEPT !.canContinue = ok]
    /\ UNCHANGED <<pollVars, sendVars, libVars>>

\* The Continue button (disabled={busy || !canContinue}) runs handleQuote up to
\* `await createQuote(...)`.
TopupHandleQuote ==
    /\ topup.step = "form"
    /\ ~topup.busy
    /\ topup.canContinue
    /\ topup' = [topup EXCEPT !.busy = TRUE, !.pc = "createQuote"]
    /\ UNCHANGED <<pollVars, sendVars, libVars>>

TopupQuoteReturns ==
    /\ topup.pc = "createQuote"
    /\ \E id \in TxIds :
         topup' = [topup EXCEPT !.quoteTx = [transactionId |-> id, quoteId |-> 1],
                                !.step = "confirm", !.busy = FALSE, !.pc = "idle"]
    /\ UNCHANGED <<pollVars, sendVars, libVars>>

TopupQuoteFails ==
    /\ topup.pc = "createQuote"
    /\ topup' = [topup EXCEPT !.busy = FALSE, !.pc = "idle"]
    /\ UNCHANGED <<pollVars, sendVars, libVars>>

\* The Confirm button (rendered when step === "confirm" && quoteTx,
\* disabled={busy}) runs handleStartTopup up to `await precheckLiquidity(...)`.
HandleStartTopup ==
    /\ topup.step = "confirm"
    /\ topup.quoteTx # NoTopupQuote
    /\ ~topup.busy
    /\ topup.quoteTx.quoteId # 0
    /\ NewTopupAttemptNo <= MaxAttempts
    /\ topup' = [topup EXCEPT !.busy = TRUE, !.step = "processing", !.pc = "precheck",
                              !.att = [no |-> NewTopupAttemptNo,
                                       quoteId |-> topup.quoteTx.quoteId,
                                       initiated |-> ""]]
    /\ UNCHANGED <<pollVars, sendVars, libVars>>

\* precheckLiquidity resolves.  With canProceed the handler calls
\* initiateOnrampStk({ quoteId, phoneNumber, walletAddress }): the payload has no
\* idempotencyKey, and the client makes the header's key itself.
PrecheckReturns(canProceed) ==
    /\ topup.pc = "precheck"
    /\ topup' =
         IF canProceed
         THEN [topup EXCEPT
                 !.pc = "initiate",
                 !.requests = @ \cup
                    {[attempt |-> topup.att.no, path |-> OnrampEndpoint.path,
                      idempotencyKey |->
                          extractIdempotencyKey(NoKey, OnrampEndpoint.prefix, topupUUID),
                      quoteId |-> topup.att.quoteId,
                      heldQuoteId |-> topup.quoteTx.quoteId]}]
         ELSE TopupCatchAndEnd
    /\ UNCHANGED <<pollVars, sendVars, libVars>>

PrecheckFails ==
    /\ topup.pc = "precheck"
    /\ topup' = TopupCatchAndEnd
    /\ UNCHANGED <<pollVars, sendVars, libVars>>

\* initiateOnrampStk resolves; pollTransaction is called with the id of its
\* transaction and { intervalMs: 3500, timeoutMs: 120000 }.
OnrampReturns ==
    /\ topup.pc = "initiate"
    /\ \E id \in TxIds :
         /\ PollStartEffect(TopupCall, id,
                            [intervalMs |-> SendIntervalMs, timeoutMs |-> SendTimeoutMs, onUpdate |-> FALSE])
         /\ topup' = [topup EXCEPT !.pc = "poll", !.att.initiated = id]
    /\ UNCHANGED <<callerOptions, queryCache, sendVars, libVars>>

OnrampFails ==
    /\ topup.pc = "initiate"
    /\ topup' = TopupCatchAndEnd
    /\ UNCHANGED <<pollVars, sendVars, libVars>>

\* A status fetch of the awaited pollTransaction resolves.  When that ends the
\* poll: setResultTx(terminal); setStep("receipt"); finally setBusy(false).
TopupPollFetchReturns ==
    /\ topup.pc = "poll"
    /\ calls[TopupCall].pc = "fetching"
    /\ \E s \in Statuses, d \in SendFetchLatencies :
         LET out == FetchOutcome(calls[TopupCall], s, d)
         IN  /\ pollingRef' = FlagAfter(out)
             /\ queryCache' = setQueryData(queryCache, out.fetched)
             /\ IF out.pc = "done"
                THEN /\ calls' = [calls EXCEPT ![TopupCall] = IdleCall]
                     /\ topup' = [topup EXCEPT !.resultTx = out.result,
                                               !.step = "receipt", !.busy = FALSE,
                                               !.pc = "idle", !.att = NoTopupAttempt]
                ELSE /\ calls' = [calls EXCEPT ![TopupCall] = out]
                     /\ UNCHANGED topup
    /\ UNCHANGED <<callerOptions, sendVars, libVars>>

TopupPollFetchFails ==
    /\ topup.pc = "poll"
    /\ calls[TopupCall].pc = "fetching"
    /\ topup' = TopupCatchAndEnd
    /\ calls' = [calls EXCEPT ![TopupCall] = IdleCall]
    /\ UNCHANGED <<pollingRef, callerOptions, queryCache, sendVars, libVars>>

\* ------------------------------------------------------------ HTTP client
\* A JavaScript value: undefined, null, a boolean, a number, a string, or an
\* object with the properties success, message and data (a property it does not
\* have reads as undefined).
Undefined == [t |-> "undefined", b |-> FALSE, n |-> 0, s |-> "", props |-> << >>]
Null == [Undefined EXCEPT !.t = "null"]
Bool(b) == [Undefined EXCEPT !.t = "boolean", !.b = b]
Number(n) == [Undefined EXCEPT !.t = "number", !.n = n]
String(s) == [Undefined EXCEPT !.t = "string", !.s = s]
Object(success, message, data) ==
    [Undefined EXCEPT !.t = "object", !.props = <<success, message, data>>]

\* v?.success, v?.message
Success(v) == IF v.t = "object" THEN v.props[1] ELSE Undefined
Message(v) == IF v.t = "object" THEN v.props[2] ELSE Undefined

Truthy(v) ==
    IF v.t = "boolean" THEN v.b
    ELSE IF v.t = "number" THEN v.n # 0
    ELSE IF v.t = "string" THEN v.s # ""
    ELSE v.t = "object"

\* The message of new Error(v) for the values a body carries as message.
ErrorMessage(v) ==
    IF v.t = "string" THEN v.s
    ELSE IF v.t = "boolean" THEN (IF v.b THEN "true" ELSE "false")
    ELSE IF v.t = "number" /\ v.n = 1 THEN "1"
    ELSE ""

\* JSON.parse on the response texts drawn here: the value, or that it throws.
JsonParse ==
    [text \in {"{}", "null", "5", "\"ok\"", "<html>Bad Gateway</html>",
               "{\"success\":true",
               "{\"success\":true,\"data\":7}",
               "{\"success\":true,\"message\":\"Done\",\"data\":7}",
               "{\"success\":1,\"data\":7}",
               "{\"success\":\"false\",\"data\":7}",
               "{\"success\":false,\"message\":\"Invalid PIN\"}",
               "{\"success\":false}",
               "{\"success\":0,\"message\":\"Quote expired\"}",
               "{\"success\":null,\"message\":1}",
               "{\"message\":\"Quote expired\"}",
               "{\"data\":7}"} |->
        CASE text = "{}" -> [throws |-> FALSE, value |-> Object(Undefined, Undefined, Undefined)]
          [] text = "null" -> [throws |-> FALSE, value |-> Null]
          [] text = "5" -> [throws |-> FALSE, value |-> Number(5)]
          [] text = "\"ok\"" -> [throws |-> FALSE, value |-> String("ok")]
          [] text = "{\"success\":true,\"data\":7}" ->
               [throws |-> FALSE, value |-> Object(Bool(TRUE), Undefined, Number(7))]
          [] text = "{\"success\":true,\"message\":\"Done\",\"data\":7}" ->
               [throws |-> FALSE, value |-> Object(Bool(TRUE), String("Done"), Number(7))]
          [] text = "{\"success\":1,\"data\":7}" ->
               [throws |-> FALSE, value |-> Object(Number(1), Undefined, Number(7))]
          [] text = "{\"success\":\"false\",\"data\":7}" ->
               [throws |-> FALSE, value |-> Object(String("false"), Undefined, Number(7))]
          [] text = "{\"success\":false,\"message\":\"Invalid PIN\"}" ->
               [throws |-> FALSE, value |-> Object(Bool(FALSE), String("Invalid PIN"), Undefined)]
          [] text = "{\"success\":false}" ->
               [throws |-> FALSE, value |-> Object(Bool(FALSE), Undefined, Undefined)]
          [] text = "{\"success\":0,\"message\":\"Quote expired\"}" ->
               [throws |-> FALSE, value |-> Object(Number(0), String("Quote expired"), Undefined)]
          [] text = "{\"success\":null,\"message\":1}" ->
               [throws |-> FALSE, value |-> Object(Null, Number(1), Undefined)]
          [] text = "{\"message\":\"Quote expired\"}" ->
               [throws |-> FALSE, value |-> Object(Undefined, String("Quote expired"), Undefined)]
          [] text = "{\"data\":7}" ->
               [throws |-> FALSE, value |-> Object(Undefined, Undefined, Number(7))]
          [] OTHER -> [throws |-> TRUE, value |-> Undefined]]

\* The bodies a response can have: the texts above, and the empty body.
ResponseTexts == DOMAIN JsonParse \cup {""}

\* The HTTP statuses a fetch response can have, as drawn here.
ResponseStatuses == {200, 201, 202, 204, 299, 300, 304, 400, 401, 404, 409, 422, 500, 503}

\* try { return JSON.parse(input) } catch { return {} }
toJson(input) ==
    IF JsonParse[input].throws THEN Object(Undefined, Undefined, Undefined)
    ELSE JsonParse[input].value

ResponseOkOnly200(status) == status = 200

\* response.ok
ResponseOk(status) == status \in 200..299

NoCall == [status |-> 0, text |-> "", threw |-> FALSE, message |-> "", value |-> Undefined]

\* request(path, init) once fetch has resolved with a response of this status
\* and body text: the Error it throws, or the payload it returns.
request(status, text) ==
    LET payload == toJson(IF text # "" THEN text ELSE "{}")
    IN  IF ~ResponseOk(status) \/ ~Truthy(Success(payload))
        THEN [status |-> status, text |-> text, threw |-> TRUE,
              message |-> IF Truthy(Message(payload)) THEN ErrorMessage(Message(payload))
                          ELSE "M-Pesa request failed.",
              value |-> Undefined]
        ELSE [status |-> status, text |-> text, threw |-> FALSE, message |-> "",
              value |-> payload]

\* A call of request returns the payload.
RequestReturns ==
    /\ \E status \in ResponseStatuses, text \in ResponseTexts :
          /\ ~request(status, text).threw
          /\ http' = request(status, text)
    /\ UNCHANGED <<pollVars, sendVars, topupVars, built, business, screen, backend>>

\* A call of request throws.
RequestThrows ==
    /\ \E status \in ResponseStatuses, text \in ResponseTexts :
          /\ request(status, text).threw
          /\ http' = request(status, text)
    /\ UNCHANGED <<pollVars, sendVars, topupVars, built, business, screen, backend>>

\* ---------------------------------------------------- business withdrawal
\* String(phoneNumber || '').trim().replace(/[\s()+-]/g, '')
RECURSIVE StripPhoneChars(_)
StripPhoneChars(s) ==
    IF s = << >> THEN << >>
    ELSE IF Head(s) \in {" ", "(", ")", "+", "-"} THEN StripPhoneChars(Tail(s))
    ELSE <<Head(s)>> \o StripPhoneChars(Tail(s))

normalizePhone(phoneNumber) == StripPhoneChars(Trim(phoneNumber))

\* chainToChainId(chain); NoChain is undefined
chainToChainId(chain) ==
    CASE chain = "arbitrum" -> ARBITRUM_ONE
      [] chain = "base" -> 8453
      [] chain = "celo" -> 42220
      [] chain = "polygon" -> 137
      [] chain = "optimism" -> 10
      [] OTHER -> NoChain

\* The WithdrawToMpesaRequest values drawn: amount in KES, 0 for none.
WithdrawRequests ==
    [businessId : {"", "biz-1"},
     amount : {0, 500},
     phoneNumber : {<<"+", "2", "5", "4", " ", "7", "1", "2", "-", "3", "4", "5", "6", "7", "8">>,
                    <<"2", "5", "4", "7", "1", "2", "3", "4", "5", "6", "7", "8">>,
                    <<"0", "7", "1", "2", "3", "4", "5", "6", "7", "8">>},
     chain : {"arbitrum", "base", "solana"},
     pin : {"", "4321"}]

NoWithdrawRequest ==
    [businessId |-> "", amount |-> 0, phoneNumber |-> << >>, chain |-> "", pin |-> ""]

NoBusinessQuote == [quoteId |-> 0, required |-> FALSE]

NoInitiate ==
    [path |-> "", quoteId |-> 0, phoneNumber |-> << >>, pin |-> "", required |-> FALSE,
     onchainTxHash |-> NoHash, chainId |-> NoChain]

\* makeFailure(message) and the success result, as far as the callers read them.
makeFailure(message) == [success |-> FALSE, message |-> message, transactionId |-> ""]

NoResult == [success |-> FALSE, message |-> "", transactionId |-> ""]

InitialBusiness ==
    [pc |-> "idle", request |-> NoWithdrawRequest, quote |-> NoBusinessQuote,
     initiate |-> NoInitiate, transfer |-> "none", result |-> NoResult]

\* withdrawToMpesa(request) up to a return of its checks or to the await of
\* mpesaClient.createQuote.
WithdrawToMpesa(req) ==
    /\ business.pc = "idle"
    /\ business' =
         LET phoneNumber == normalizePhone(req.phoneNumber)
             started == [InitialBusiness EXCEPT !.request = req]
         IN  IF req.businessId = ""
             THEN [started EXCEPT !.result = makeFailure("businessId is required")]
             ELSE IF req.amount <= 0
             THEN [started EXCEPT !.result = makeFailure("amount must be greater than 0")]
             ELSE IF ~IsKenyanMsisdn(phoneNumber)
             THEN [started EXCEPT
                     !.result = makeFailure("phoneNumber must be in 2547XXXXXXXX format")]
             ELSE [started EXCEPT !.pc = "createQuote"]
    /\ UNCHANGED <<pollVars, sendVars, topupVars, built, http, screen, backend>>

\* createQuote resolves with a quote of the backend's making, one that asks for
\* on-chain funding or one that does not; initiateOfframp is called with it.
WithdrawQuoteReturns(required) ==
    /\ business.pc = "createQuote"
    /\ business' =
         [business EXCEPT
            !.pc = "initiate",
            !.quote = [quoteId |-> 1, required |-> required],
            !.initiate =
               [path |-> "offramp/initiate", quoteId |-> 1,
                phoneNumber |-> normalizePhone(business.request.phoneNumber),
                \* request.pin || '0000'
                pin |-> IF business.request.pin # "" THEN business.request.pin ELSE "0000",
                required |-> required,
                onchainTxHash |-> NoHash,
                chainId |-> chainToChainId(business.request.chain)]]
    /\ UNCHANGED <<pollVars, sendVars, topupVars, built, http, screen, backend>>

\* createQuote or initiateOfframp rejects: the catch returns a failure.
WithdrawFails ==
    /\ business.pc \in {"createQuote", "initiate"}
    /\ business' = [business EXCEPT !.pc = "idle",
                                    !.result = makeFailure("M-Pesa request failed.")]
    /\ UNCHANGED <<pollVars, sendVars, topupVars, built, http, screen, backend>>

\* initiateOfframp resolves with the transaction.
WithdrawInitiateReturns ==
    /\ business.pc = "initiate"
    /\ business' = [business EXCEPT
                      !.pc = "idle",
                      !.result = [success |-> TRUE, message |-> "", transactionId |-> "tx-1"]]
    /\ UNCHANGED <<pollVars, sendVars, topupVars, built, http, screen, backend>>

\* ----------------------------------------------- business withdrawal screen
\* BusinessWithdrawal, its M-Pesa tab: handleWithdrawToMpesa, the pollTransaction
\* it starts without awaiting it, and refreshMpesaStatus.
InitialScreen ==
    [pc |-> "idle", isSubmitting |-> FALSE, mpesaTransaction |-> NoTx,
     refreshingMpesa |-> FALSE]

\* status: the status of each transaction, "" while the backend has none of that
\* id.  polls, refresh: the status fetch in flight of each pollTransaction call and
\* of refreshMpesaStatus, with the status the backend answered with, "" until it
\* has answered.
InitialBackend ==
    [status |-> [id \in TxIds |-> ""], polls |-> [c \in Calls |-> ""], refresh |-> NoTx]

\* mpesa_submitted -> mpesa_processing -> {succeeded | failed}, failed -> refunded.
\* The refund_pending stage between failed and refunded is left out: at this
\* backend a terminal status is never followed by one that is not terminal.
BackendNext(status) ==
    CASE status = "mpesa_submitted" -> {"mpesa_processing"}
      [] status = "mpesa_processing" -> {"succeeded", "failed"}
      [] status = "failed" -> {"refunded"}
      [] OTHER -> {}

\* The submit button (disabled={isSubmitting || ...}) runs handleWithdrawToMpesa up
\* to `await withdrawToMpesa(...)`.  The model has a call and a transaction id left
\* for the withdrawal.
HandleWithdrawToMpesa ==
    /\ screen.pc = "idle"
    /\ ~screen.isSubmitting
    /\ \E c \in Calls : calls[c].pc = "idle"
    /\ \E id \in SettledIds : backend.status[id] = ""
    /\ screen' = [screen EXCEPT !.pc = "withdraw", !.isSubmitting = TRUE]
    /\ UNCHANGED <<pollVars, sendVars, topupVars, built, http, business, backend>>

\* withdrawToMpesa resolves with a result: setMpesaTransaction(result.transaction);
\* pollTransaction(result.transactionId, { intervalMs: 3500, timeoutMs: 120000,
\* onUpdate: (tx) => setMpesaTransaction(tx) }) is called and not awaited; finally
\* setIsSubmitting(false).
ScreenWithdrawReturns ==
    /\ screen.pc = "withdraw"
    /\ \E id \in SettledIds, c \in Calls :
         /\ backend.status[id] = ""
         /\ calls[c].pc = "idle"
         /\ PollStartEffect(c, id, [intervalMs |-> 3500, timeoutMs |-> 120000, onUpdate |-> TRUE])
         /\ backend' = [backend EXCEPT !.status[id] = "mpesa_submitted"]
         /\ screen' = [screen EXCEPT
                          !.pc = "idle", !.isSubmitting = FALSE,
                          !.mpesaTransaction = [transactionId |-> id, status |-> "mpesa_submitted"]]
    /\ UNCHANGED <<callerOptions, queryCache, sendVars, topupVars, built, http, business>>

\* withdrawToMpesa resolves with null or rejects: finally setIsSubmitting(false).
ScreenWithdrawFails ==
    /\ screen.pc = "withdraw"
    /\ screen' = [screen EXCEPT !.pc = "idle", !.isSubmitting = FALSE]
    /\ UNCHANGED <<pollVars, sendVars, topupVars, built, http, business, backend>>

\* The backend moves a transaction on.
BackendAdvances(id) ==
    /\ \E s \in BackendNext(backend.status[id]) :
         backend' = [backend EXCEPT !.status[id] = s]
    /\ UNCHANGED <<pollVars, sendVars, topupVars, built, http, business, screen>>

\* The backend answers the status fetch of call c with the status the transaction
\* has now; the response is on its way.
BackendServesPoll(c) ==
    /\ calls[c].pc = "fetching"
    /\ backend.polls[c] = ""
    /\ backend.status[calls[c].transactionId] # ""
    /\ backend' = [backend EXCEPT !.polls[c] = backend.status[calls[c].transactionId]]
    /\ UNCHANGED <<pollVars, sendVars, topupVars, built, http, business, screen>>

\* The response to the status fetch of call c arrives: getTransaction caches it,
\* onUpdate runs setMpesaTransaction(tx), and pollTransaction returns or sleeps.
\* What the call returns is dropped (the promise has only a catch).
ScreenPollFetchReturns(c) ==
    /\ calls[c].pc = "fetching"
    /\ backend.polls[c] # ""
    /\ \E d \in SendFetchLatencies :
         LET out == FetchOutcome(calls[c], backend.polls[c], d)
         IN  /\ pollingRef' = FlagAfter(out)
             /\ queryCache' = setQueryData(queryCache, out.fetched)
             /\ calls' = [calls EXCEPT ![c] = IF out.pc = "done" THEN IdleCall ELSE out]
             /\ screen' = [screen EXCEPT !.mpesaTransaction = out.updated]
    /\ backend' = [backend EXCEPT !.polls[c] = ""]
    /\ UNCHANGED <<callerOptions, sendVars, topupVars, built, http, business>>

\* The status fetch of call c rejects: pollTransaction rejects, .catch(() => {}).
ScreenPollFetchFails(c) ==
    /\ calls[c].pc = "fetching"
    /\ backend.status[calls[c].transactionId] # ""
    /\ calls' = [calls EXCEPT ![c] = IdleCall]
    /\ backend' = [backend EXCEPT !.polls[c] = ""]
    /\ UNCHANGED <<pollingRef, callerOptions, queryCache, sendVars, topupVars, built, http,
                   business, screen>>

\* The refresh button (rendered with the transaction, disabled={refreshingMpesa})
\* runs refreshMpesaStatus up to `await getTransaction(...)`.
RefreshMpesaStatus ==
    /\ screen.mpesaTransaction # NoTx
    /\ ~screen.refreshingMpesa
    /\ screen' = [screen EXCEPT !.refreshingMpesa = TRUE]
    /\ backend' = [backend EXCEPT
                      !.refresh = [transactionId |-> screen.mpesaTransaction.transactionId,
                                   status |-> ""]]
    /\ UNCHANGED <<pollVars, sendVars, topupVars, built, http, business>>

\* The backend answers the status fetch of refreshMpesaStatus.
BackendServesRefresh ==
    /\ backend.refresh # NoTx
    /\ backend.refresh.status = ""
    /\ backend' = [backend EXCEPT !.refresh.status = backend.status[backend.refresh.transactionId]]
    /\ UNCHANGED <<pollVars, sendVars, topupVars, built, http, business, screen>>

\* The response arrives: getTransaction caches it, setMpesaTransaction(tx), finally
\* setRefreshingMpesa(false).
RefreshReturns ==
    /\ backend.refresh # NoTx
    /\ backend.refresh.status # ""
    /\ queryCache' = setQueryData(queryCache, backend.refresh)
    /\ screen' = [screen EXCEPT !.mpesaTransaction = backend.refresh,
                                !.refreshingMpesa = FALSE]
    /\ backend' = [backend EXCEPT !.refresh = NoTx]
    /\ UNCHANGED <<pollingRef, calls, callerOptions, sendVars, topupVars, built, http, business>>

\* getTransaction rejects: finally setRefreshingMpesa(false).
RefreshFails ==
    /\ backend.refresh # NoTx
    /\ screen' = [screen EXCEPT !.refreshingMpesa = FALSE]
    /\ backend' = [backend EXCEPT !.refresh = NoTx]
    /\ UNCHANGED <<pollVars, sendVars, topupVars, built, http, business>>

\* ------------------------------------------------- authorization message
\* A number is written n * 10^-scale with n a natural number: the amounts of a
\* quote are finite and not negative.
Num(n, scale) == [n |-> n, scale |-> scale]

Zero == Num(0, 0)

RECURSIVE Pow10(_)
Pow10(k) == IF k = 0 THEN 1 ELSE 10 * Pow10(k - 1)

DigitChar == <<"0", "1", "2", "3", "4", "5", "6", "7", "8", "9">>

\* The decimal digits of a natural number.
RECURSIVE Digits(_)
Digits(n) ==
    IF n < 10 THEN <<DigitChar[n + 1]>>
    ELSE Digits(n \div 10) \o <<DigitChar[(n % 10) + 1]>>

\* The last k decimal digits of n, zeros included.
LastDigits(n, k) == [i \in 1..k |-> DigitChar[((n \div Pow10(k - i)) % 10) + 1]]

\* Number.prototype.toFixed: the integer nearest to value * 10^decimals, written
\* with the point before its last `decimals` digits.  The amounts drawn below are
\* no ties, which toFixed settles on the binary value.
toFixed(value, decimals) ==
    LET r == IF value.scale > decimals
             THEN (2 * value.n + Pow10(value.scale - decimals))
                      \div (2 * Pow10(value.scale - decimals))
             ELSE value.n * Pow10(decimals - value.scale)
    IN  Digits(r \div Pow10(decimals)) \o <<".">> \o LastDigits(r, decimals)

\* a || b of two numbers
NumOr(a, b) == IF a.n # 0 THEN a ELSE b

\* a || b of two strings
StrOr(a, b) == IF a # << >> THEN a ELSE b

\* const n = Number(value || 0); return n.toFixed(decimals)
formatFixed(value, decimals) == toFixed(NumOr(value, Zero), decimals)

FlowTypes == {"offramp", "paybill", "buygoods", "onramp"}

FlowChars ==
    [offramp |-> <<"o", "f", "f", "r", "a", "m", "p">>, paybill |-> <<"p", "a", "y", "b", "i", "l", "l">>,
     buygoods |-> <<"b", "u", "y", "g", "o", "o", "d", "s">>, onramp |-> <<"o", "n", "r", "a", "m", "p">>]

targetDescriptorPhoneOnly(tx) == <<"p", "h", "o", "n", "e", ":">> \o StrOr(tx.phoneNumber, <<"-">>)

targetDescriptor(tx) ==
    IF tx.flowType = "offramp"
    THEN <<"p", "h", "o", "n", "e", ":">> \o StrOr(tx.phoneNumber, <<"-">>)
    ELSE IF tx.flowType = "paybill"
    THEN <<"p", "a", "y", "b", "i", "l", "l", ":">> \o StrOr(tx.paybillNumber, <<"-">>) \o <<":">>
            \o StrOr(tx.accountReference, <<"-">>)
    ELSE IF tx.flowType = "buygoods"
    THEN <<"b", "u", "y", "g", "o", "o", "d", "s", ":">> \o StrOr(tx.tillNumber, <<"-">>) \o <<":">>
            \o StrOr(tx.accountReference, <<"D", "o", "t", "P", "a", "y">>)
    ELSE FlowChars["onramp"]

\* lines.join("\n")
RECURSIVE Join(_)
Join(lines) ==
    IF Len(lines) = 1 THEN lines[1]
    ELSE lines[1] \o <<"\n">> \o Join(Tail(lines))

\* in.tx is the transaction with the fields the builder reads, quote.* and
\* targets.* side by side.
buildMpesaAuthorizationMessage(in) ==
    Join(<<<<"D", "o", "t", "P", "a", "y", " ", "A", "u", "t", "h", "o", "r", "i", "z", "a", "t", "i", "o", "n">>,
           <<"T", "r", "a", "n", "s", "a", "c", "t", "i", "o", "n", ":", " ">> \o in.transactionId,
           <<"F", "l", "o", "w", ":", " ">> \o FlowChars[in.flowType],
           <<"Q", "u", "o", "t", "e", ":", " ">> \o StrOr(in.quoteId, <<"-">>),
           <<"A", "m", "o", "u", "n", "t", "K", "E", "S", ":", " ">> \o formatFixed(NumOr(NumOr(in.totalDebitKes, in.amountKes), Zero), 2),
           <<"A", "m", "o", "u", "n", "t", "U", "S", "D", "C", ":", " ">> \o formatFixed(NumOr(NumOr(in.expectedAmountUsd, in.amountUsd), Zero), 6),
           <<"T", "a", "r", "g", "e", "t", ":", " ">> \o targetDescriptor(in),
           <<"N", "o", "n", "c", "e", ":", " ">> \o in.nonce,
           <<"S", "i", "g", "n", "e", "d", "A", "t", ":", " ">> \o in.signedAt>>)

\* The values each argument field is drawn from.
Domain ==
    [transactionId |-> {<<"t", "1">>, <<"t", "2">>},
     flowType |-> FlowTypes,
     quoteId |-> {<< >>, <<"-">>, <<"q", "1">>},
     totalDebitKes |-> {Zero, Num(100001, 3), Num(100004, 3)},
     amountKes |-> {Num(100001, 3), Num(100004, 3), Num(250, 0)},
     expectedAmountUsd |-> {Zero, Num(15000004, 7)},
     amountUsd |-> {Num(15000001, 7), Num(15000004, 7), Num(2, 0)},
     phoneNumber |-> {<< >>, <<"2", "5", "4", "7">>},
     paybillNumber |-> {<< >>, <<"5", "2", "2">>},
     tillNumber |-> {<< >>, <<"9", "1">>},
     accountReference |-> {<< >>, <<"-">>, <<"D", "o", "t", "P", "a", "y">>},
     nonce |-> {<<"n", "1">>, <<"n", "2">>},
     signedAt |-> {<<"1", "7", "0", "0">>, <<"1", "7", "0", "1">>}]

Fields == DOMAIN Domain

\* The arguments of a first call: any transaction, one id, nonce and time.
FirstInputs ==
    [transactionId : {<<"t", "1">>},
     flowType : Domain.flowType,
     quoteId : Domain.quoteId,
     totalDebitKes : Domain.totalDebitKes,
     amountKes : Domain.amountKes,
     expectedAmountUsd : Domain.expectedAmountUsd,
     amountUsd : Domain.amountUsd,
     phoneNumber : Domain.phoneNumber,
     paybillNumber : Domain.paybillNumber,
     tillNumber : Domain.tillNumber,
     accountReference : Domain.accountReference,
     nonce : {<<"n", "1">>},
     signedAt : {<<"1", "7", "0", "0">>}]

Built(in) == [in |-> in, message |-> buildMpesaAuthorizationMessage(in)]

\* A caller builds the message of a transaction.
BuildFirst ==
    /\ built = << >>
    /\ \E in \in FirstInputs : built' = <<Built(in)>>
    /\ UNCHANGED <<pollVars, sendVars, topupVars, http, business, screen, backend>>

\* A caller builds a message again, from the same arguments or with one field of
\* them changed.
BuildSecond ==
    /\ Len(built) = 1
    /\ \E f \in Fields :
         \E v \in Domain[f] :
            built' = Append(built, Built([built[1].in EXCEPT ![f] = v]))
    /\ UNCHANGED <<pollVars, sendVars, topupVars, http, business, screen, backend>>

\* ------------------------------------------------------- specifications
InitPoller(options) ==
    /\ pollingRef = [id \in TxIds |-> FALSE]
    /\ calls = [c \in Calls |-> IdleCall]
    /\ callerOptions = options
    /\ queryCache = [id \in TxIds |-> NoTx]

InitMessages ==
    /\ built = << >>
    /\ http = NoCall
    /\ business = InitialBusiness
    /\ screen = InitialScreen
    /\ backend = InitialBackend

InitSend ==
    /\ mode \in SendModes
    /\ dotpayNetwork = "sepolia"
    /\ step = "form"
    /\ pin = << >>
    /\ form = GoodForm
    /\ quoteTransaction = NoQuoteTx
    /\ resultTransaction = NoTx
    /\ busy = FALSE
    /\ idempotencyKeyRef = NoKey
    /\ pc = "idle"
    /\ att = NoAttempt
    /\ toast = ""
    /\ transfers = {}
    /\ requests = {}

\* The Send flow page: its handlers, and the poller as its one caller drives it.
InitTopup == topup = InitialTopup

Init ==
    /\ InitSend
    /\ InitMessages
    /\ InitTopup
    /\ InitPoller([intervalMs |-> SendIntervalMs, timeoutMs |-> SendTimeoutMs, onUpdate |-> FALSE])

Next ==
    \/ \E f \in FormInputs : EditForm(f)
    \/ \E p \in PinInputs : SetPin(p)
    \/ HandleCreateQuote
    \/ CreateQuoteReturns
    \/ CreateQuoteFails
    \/ HandleConfirmAndSend
    \/ SignFails
    \/ SignReturns
    \/ SendTxReturns
    \/ SendTxFails
    \/ ReceiptReturns
    \/ ReceiptFails
    \/ SettleReturns
    \/ SettleFails
    \/ PollFetchReturns
    \/ PollFetchFails
    \/ SleepDone(SendCall)
    \/ ResetFlow

Spec == Init /\ [][Next]_vars

\* The poller with callers that start, overlap and stop polls at will.
InitPoll ==
    /\ InitSend
    /\ InitMessages
    /\ InitTopup
    /\ mode = "cashout"
    /\ \E options \in PollOptions : InitPoller(options)

NextPoll ==
    \/ \E c \in Calls, id \in TxIds : PollStart(c, id)
    \/ \E c \in Calls : FetchReturns(c)
    \/ \E c \in Calls : FetchFails(c)
    \/ \E c \in Calls : SleepDone(c)
    \/ \E c \in Calls : FinalReturns(c)
    \/ \E id \in TxIds : StopPolling(id)

SpecPoll == InitPoll /\ [][NextPoll]_vars

\* The top-up panel: its handlers, and the poller as its one caller drives it.
InitTopupFlow ==
    /\ InitSend
    /\ InitMessages
    /\ mode = "cashout"
    /\ InitTopup
    /\ InitPoller([intervalMs |-> SendIntervalMs, timeoutMs |-> SendTimeoutMs, onUpdate |-> FALSE])

NextTopup ==
    \/ \E ok \in BOOLEAN : TopupEditForm(ok)
    \/ TopupHandleQuote
    \/ TopupQuoteReturns
    \/ TopupQuoteFails
    \/ HandleStartTopup
    \/ \E canProceed \in BOOLEAN : PrecheckReturns(canProceed)
    \/ PrecheckFails
    \/ OnrampReturns
    \/ OnrampFails
    \/ TopupPollFetchReturns
    \/ TopupPollFetchFails
    \/ SleepDone(TopupCall)

SpecTopup == InitTopupFlow /\ [][NextTopup]_vars

\* A page of the app mounts one of the two components: /mpesa?tab=withdraw,
\* /pay/paybill and /pay/till the Send flow in its three modes, /mpesa?tab=buy the
\* top-up panel.  The component that is not mounted has no step.
InitFlows ==
    /\ InitMessages
    /\ \/ InitSend /\ topup = [InitialTopup EXCEPT !.step = "unmounted"]
       \/ /\ mode = "cashout"
          /\ dotpayNetwork = "sepolia"
          /\ step = "unmounted"
          /\ pin = << >>
          /\ form = GoodForm
          /\ quoteTransaction = NoQuoteTx
          /\ resultTransaction = NoTx
          /\ busy = FALSE
          /\ idempotencyKeyRef = NoKey
          /\ pc = "idle"
          /\ att = NoAttempt
          /\ toast = ""
          /\ transfers = {}
          /\ requests = {}
          /\ InitTopup
    /\ InitPoller([intervalMs |-> SendIntervalMs, timeoutMs |-> SendTimeoutMs, onUpdate |-> FALSE])

NextFlows == Next \/ NextTopup

SpecFlows == InitFlows /\ [][NextFlows]_vars

\* The message builder, called twice.
NextMessages == BuildFirst \/ BuildSecond

InitMessageCalls ==
    /\ Init
    /\ mode = "cashout"

SpecMessages == InitMessageCalls /\ [][NextMessages]_vars

\* The form step of the Send flow, with what a user may type into the form.
NextForm ==
    \/ \E f \in FormTrials : EditForm(f)
    \/ HandleCreateQuote
    \/ CreateQuoteReturns
    \/ CreateQuoteFails
    \/ ResetFlow

SpecForm == Init /\ [][NextForm]_vars

\* businessFinanceAPI.withdrawToMpesa, called again and again.
NextWithdraw ==
    \/ \E req \in WithdrawRequests : WithdrawToMpesa(req)
    \/ \E required \in BOOLEAN : WithdrawQuoteReturns(required)
    \/ WithdrawFails
    \/ WithdrawInitiateReturns

SpecWithdraw == InitMessageCalls /\ [][NextWithdraw]_vars

\* The BusinessWithdrawal screen with its backend: withdrawals to M-Pesa, the polls
\* they start and the refresh button.
NextScreen ==
    \/ HandleWithdrawToMpesa
    \/ ScreenWithdrawReturns
    \/ ScreenWithdrawFails
    \/ \E id \in TxIds : BackendAdvances(id)
    \/ \E c \in Calls : BackendServesPoll(c)
    \/ \E c \in Calls : ScreenPollFetchReturns(c)
    \/ \E c \in Calls : ScreenPollFetchFails(c)
    \/ \E c \in Calls : SleepDone(c)
    \/ RefreshMpesaStatus
    \/ BackendServesRefresh
    \/ RefreshReturns
    \/ RefreshFails

SpecScreen == InitMessageCalls /\ [][NextScreen]_vars

\* The HTTP client, called with every response.
NextRequests == RequestReturns \/ RequestThrows

SpecRequests == InitMessageCalls /\ [][NextRequests]_vars

\* The poller when every status fetch completes: no fetch rejects, a pending fetch
\* resolves and a pending sleep timer fires.
NextPollLive ==
    \/ \E c \in Calls, id \in TxIds : PollStart(c, id)
    \/ \E c \in Calls : FetchReturns(c)
    \/ \E c \in Calls : SleepDone(c)
    \/ \E c \in Calls : FinalReturns(c)
    \/ \E id \in TxIds : StopPolling(id)

SpecPollLive ==
    /\ InitPoll
    /\ [][NextPollLive]_vars
    /\ \A c \in Calls :
         WF_vars(FetchReturns(c)) /\ WF_vars(SleepDone(c)) /\ WF_vars(FinalReturns(c))

\* ------------------------------------------------- properties: Send flow
Broadcast == {"sent", "confirmed", "unconfirmed"}

InAttempt == pc \in {"signing", "sendTx", "waitReceipt", "settle", "poll"}

\* C1: every settlement request sent for a quote that requires funding carries a
\* transaction hash, and that hash is the hash of a transfer dispatched in the same
\* attempt whose waitForReceipt had resolved when the request was sent.
C1_SettlementCarriesConfirmedHash ==
    \A r \in requests :
        r.required =>
            /\ r.onchainTxHash # NoHash
            /\ \E t \in transfers :
                 /\ t.attempt = r.attempt
                 /\ t.quoteId = r.quoteId
                 /\ t.transactionHash = r.onchainTxHash
                 /\ t.status = "confirmed"

\* A settlement request for a funded quote has been sent.
C1_Witness ==
    \E r \in requests : r.required /\ r.onchainTxHash # NoHash /\ r.chainId = usdcChainId

\* C2 (as the claim states it): over the attempts made with one held quote (and so
\* one idempotency key), at most one token transfer leaves the wallet.
C2_AtMostOneTransferPerQuote ==
    \A t1, t2 \in transfers :
        (t1.quoteId = t2.quoteId /\ t1.status \in Broadcast /\ t2.status \in Broadcast)
            => t1 = t2

\* C3: the settlement requests sent while one quote is held all carry one
\* Idempotency-Key, and requests sent for different quotes carry different keys.
C3_KeyStablePerQuote ==
    \A r1, r2 \in requests :
        /\ (r1.quoteId = r2.quoteId /\ r1.held /\ r2.held)
               => r1.idempotencyKey = r2.idempotencyKey
        /\ r1.quoteId # r2.quoteId => r1.idempotencyKey # r2.idempotencyKey

\* A failed attempt was retried with the same held quote: two settlement requests.
C3_Witness ==
    \E r1, r2 \in requests :
        r1.attempt # r2.attempt /\ r1.quoteId = r2.quoteId /\ r1.held /\ r2.held

\* The funding descriptor as the quote carries it, untrimmed, fails a precondition.
RawBad(tx) ==
    \/ ~IsDigitString(tx.onchain.expectedAmountUnits)
    \/ ~IsAddress(tx.onchain.treasuryAddress)
    \/ (tx.onchain.chainId # NoChain /\ tx.onchain.chainId # usdcChainId)

\* The funding descriptor fails a precondition once surrounding whitespace is
\* trimmed off its amount and treasury address.
TrimmedBad(tx) ==
    \/ ~IsDigitString(Trim(tx.onchain.expectedAmountUnits))
    \/ ~IsAddress(Trim(tx.onchain.treasuryAddress))
    \/ (tx.onchain.chainId # NoChain /\ tx.onchain.chainId # usdcChainId)

\* C4 (as the claim states it): with funding required and an expected amount that
\* is not a pure digit string, a treasury address that is not 0x and 40 hex
\* characters, or a chain id other than the configured one, the attempt dispatches
\* no transfer and sends no settlement request.
C4_RejectsRawDescriptor ==
    [][(pc = "signing" /\ Required(att.quote) /\ RawBad(att.quote))
          => (transfers' = transfers /\ requests' = requests
              /\ pc' \in {"signing", "idle"})]_vars

\* C4 (amended): the same, for the amount and treasury address with surrounding
\* whitespace trimmed off and a chain id that is present and differs from the
\* configured one.
C4_RejectsTrimmedDescriptor ==
    [][(pc = "signing" /\ Required(att.quote) /\ TrimmedBad(att.quote))
          => (transfers' = transfers /\ requests' = requests
              /\ pc' \in {"signing", "idle"})]_vars

\* The latest attempt threw a funding precondition error: nothing was dispatched
\* or sent and the flow is back at the confirmation step.
C4_Witness ==
    /\ pc = "idle"
    /\ step = "confirm"
    /\ quoteTransaction # NoQuoteTx
    /\ Required(quoteTransaction)
    /\ TrimmedBad(quoteTransaction)
    /\ toast = fundingError(quoteTransaction)
    /\ toast \in {"Quote is missing the required USDC funding amount.",
                  "Treasury address is not configured correctly.",
                  "Wrong chain for funding."}
    /\ transfers = {}
    /\ requests = {}

\* C5 (as the claim states it): a transfer is dispatched only while a quote is
\* held; a settlement request is sent only when the funding stage has returned
\* (nothing to fund, or the transfer confirmed); the poll is started only when the
\* settlement call has returned, with the id of the transaction it returned.
C5_StagesInSequence ==
    [][/\ Cardinality(transfers') > Cardinality(transfers)
            => quoteTransaction # NoQuoteTx
       /\ requests' # requests
            => \/ pc = "signing" /\ ~Required(att.quote)
               \/ pc = "waitReceipt"
                    /\ \E t \in transfers' : t.attempt = att.no /\ t.status = "confirmed"
       /\ (calls[SendCall].pc = "idle" /\ calls'[SendCall].pc # "idle")
            => /\ pc = "settle"
               /\ calls'[SendCall].transactionId = att'.initiated]_vars

\* C6 (as the claim states it): when an attempt ends in failure the step is
\* 'confirm', the quote held is the one the attempt started with, the held key is
\* the one held when it started, and busy is false.
C6_FailureKeepsQuoteAndKey ==
    [][(InAttempt /\ pc' = "idle" /\ step' # "receipt")
          => /\ step' = "confirm"
             /\ quoteTransaction' # NoQuoteTx
             /\ quoteTransaction'.quoteId = att.quote.quoteId
             /\ idempotencyKeyRef' = att.heldKey
             /\ busy' = FALSE]_vars

\* C13: a transfer handed to sendOnchainTx is being waited for by the attempt that
\* dispatched it, a broadcast transfer has that attempt waiting for its receipt,
\* and a confirmed transfer has had its hash sent in the settlement request of its
\* attempt -- whatever else happened meanwhile.
C13_TransferNeverAbandoned ==
    \A t \in transfers :
        /\ t.status = "submitted" => (pc = "sendTx" /\ att.no = t.attempt)
        /\ t.status = "sent" =>
              /\ pc = "waitReceipt"
              /\ att.no = t.attempt
              /\ att.funding.onchainTxHash = t.transactionHash
        /\ t.status = "confirmed" =>
              \E r \in requests :
                  /\ r.attempt = t.attempt
                  /\ r.required
                  /\ r.onchainTxHash = t.transactionHash

\* 'Start over' was pressed during an attempt, and the attempt's transfer was
\* confirmed and its hash sent in the settlement request all the same.
C13_Witness ==
    \E t \in transfers, r \in requests :
        /\ t.status = "confirmed"
        /\ r.attempt = t.attempt
        /\ r.onchainTxHash = t.transactionHash
        /\ ~r.held

\* C14 (as the claim states it): a key is held at the confirmation step of a held
\* quote, and none is held where no quote is held or where the flow has been reset
\* to its form.
C14_KeyHeldOnlyWithQuote ==
    /\ (step = "confirm" /\ quoteTransaction # NoQuoteTx) => idempotencyKeyRef # NoKey
    /\ quoteTransaction = NoQuoteTx => idempotencyKeyRef = NoKey
    /\ step = "form" => idempotencyKeyRef = NoKey

\* C15 (as the claim states it): a transfer is dispatched only for a quote that
\* itself carries a token address of 0x and 40 hex characters and a chain id
\* equal to the configured one.
C15_TransferNeedsQuotedTokenAndChain ==
    [][Cardinality(transfers') > Cardinality(transfers)
          => /\ IsAddress(Trim(att.quote.onchain.tokenAddress))
             /\ att.quote.onchain.chainId = usdcChainId]_vars

\* The settlement endpoint of each flow.
FlowPath ==
    [cashout |-> "offramp/initiate", paybill |-> "merchant/paybill/initiate",
     buygoods |-> "merchant/buygoods/initiate"]

\* C16: a step that sends settlement requests sends one, the only one of its
\* attempt, to the endpoint of the flow (onramp/stk/initiate from the top-up
\* panel), with the quoteId of the quote the flow holds at that moment.
C16_OneRequestToFlowEndpoint ==
    [][/\ Cardinality(requests' \ requests) <= 1
       /\ \A r \in requests' \ requests :
            /\ r.attempt = att.no
            /\ \A o \in requests : o.attempt # r.attempt
            /\ r.path = FlowPath[mode]
            /\ quoteTransaction # NoQuoteTx
            /\ r.quoteId = quoteTransaction.quoteId
       /\ Cardinality(topup'.requests \ topup.requests) <= 1
       /\ \A r \in topup'.requests \ topup.requests :
            /\ r.attempt = topup.att.no
            /\ \A o \in topup.requests : o.attempt # r.attempt
            /\ r.path = "onramp/stk/initiate"
            /\ topup.quoteTx # NoTopupQuote
            /\ r.quoteId = topup.quoteTx.quoteId]_vars

\* C17: the funding stage of an attempt whose quote has no onchain descriptor, or
\* one whose required is false, dispatches no transfer and waits for no receipt,
\* and the settlement request sent in that step has no onchainTxHash and no
\* chainId; no transfer of the attempt of such a request exists.
C17_NoFundingWhenNotRequired ==
    /\ [][(pc = "signing" /\ pc' # "signing"
              /\ ~(att.quote.onchain.present /\ att.quote.onchain.required))
            => /\ transfers' = transfers
               /\ pc' \notin {"sendTx", "waitReceipt"}
               /\ \A r \in requests' \ requests :
                    r.onchainTxHash = NoHash /\ r.chainId = NoChain]_vars
    /\ [](\A r \in requests :
            (r.onchainTxHash = NoHash \/ r.chainId = NoChain)
                => /\ r.onchainTxHash = NoHash
                   /\ r.chainId = NoChain
                   /\ \A t \in transfers : t.attempt # r.attempt)

\* A settlement request was sent for a quote whose descriptor is present with
\* required false, the attempt's funding stage having returned nothing.
C17_Witness ==
    /\ pc = "settle"
    /\ quoteTransaction.onchain.present
    /\ ~quoteTransaction.onchain.required
    /\ \E r \in requests :
         r.attempt = att.no /\ r.onchainTxHash = NoHash /\ r.chainId = NoChain

\* pollTransaction has returned to the Send flow on its timeout, with a
\* transaction whose status is not terminal.
TimedOutReturn ==
    /\ step = "receipt"
    /\ resultTransaction # NoTx
    /\ resultTransaction.status \notin TERMINAL_STATUSES

\* No state of the Send flow has the refresh button enabled.
RefreshNeverEnabled == ~handleManualRefreshEnabled

\* C19: once pollTransaction has returned a non-terminal transaction on its
\* timeout and the handler has ended, so that the page only waits for the user,
\* handleManualRefresh can be triggered.
C19_TimeoutOffersManualRefresh ==
    (TimedOutReturn /\ pc = "idle") => handleManualRefreshEnabled

\* The fields in which the arguments of the two calls differ.
Differing == {f \in Fields : built[1].in[f] # built[2].in[f]}

\* C20: two calls with equal arguments return the same string, and two calls
\* whose arguments differ in one field (the id, the flow type, the quote id, a
\* KES amount, a token amount, a target field, the nonce, signedAt) return
\* different strings.
C20_MessageDeterministicAndSensitive ==
    Len(built) = 2 =>
        /\ Differing = {} => built[1].message = built[2].message
        /\ Cardinality(Differing) = 1 => built[1].message # built[2].message

\* Equal arguments give equal strings, and a change of the id, the flow type,
\* the nonce or signedAt changes the string.
MessageSensitiveToIdFlowNonceTime ==
    Len(built) = 2 =>
        /\ Differing = {} => built[1].message = built[2].message
        /\ (Differing # {} /\ Differing \subseteq {"transactionId", "flowType", "nonce", "signedAt"})
              => built[1].message # built[2].message

\* The lines of a string: its pieces between newlines.
RECURSIVE SplitLines(_)
SplitLines(s) ==
    IF \A i \in 1..Len(s) : s[i] # "\n" THEN <<s>>
    ELSE LET i == CHOOSE k \in 1..Len(s) :
                     s[k] = "\n" /\ \A j \in 1..(k - 1) : s[j] # "\n"
         IN  <<SubSeq(s, 1, i - 1)>> \o SplitLines(SubSeq(s, i + 1, Len(s)))

\* line is label followed by rest
Labelled(line, label, rest) == line = label \o rest

\* s is digits, a point and exactly `decimals` digits
IsFixed(s, decimals) ==
    /\ Len(s) >= decimals + 2
    /\ s[Len(s) - decimals] = "."
    /\ \A i \in 1..Len(s) : i # Len(s) - decimals => s[i] \in {DigitChar[d] : d \in 1..10}

\* The amount a line shows after its label.
AfterLabel(line, label) == SubSeq(line, Len(label) + 1, Len(line))

\* The transaction has the targets its flow type asks for.
HasFlowTargets(in) ==
    /\ in.flowType = "offramp" => in.phoneNumber # << >>
    /\ in.flowType = "paybill" => in.paybillNumber # << >> /\ in.accountReference # << >>
    /\ in.flowType = "buygoods" => in.tillNumber # << >>

ExpectedTarget(in) ==
    IF in.flowType = "offramp" THEN <<"p", "h", "o", "n", "e", ":">> \o in.phoneNumber
    ELSE IF in.flowType = "paybill"
    THEN <<"p", "a", "y", "b", "i", "l", "l", ":">> \o in.paybillNumber \o <<":">> \o in.accountReference
    ELSE IF in.flowType = "buygoods"
    THEN <<"b", "u", "y", "g", "o", "o", "d", "s", ":">> \o in.tillNumber \o <<":">>
            \o (IF in.accountReference = << >> THEN <<"D", "o", "t", "P", "a", "y">> ELSE in.accountReference)
    ELSE <<"o", "n", "r", "a", "m", "p">>

\* C21: every message built is nine lines: the header, Transaction, Flow, Quote,
\* AmountKES with two decimals, AmountUSDC with six, Target, Nonce, SignedAt; the
\* target of a transaction that has the targets of its flow is phone:<phone>,
\* paybill:<number>:<reference>, buygoods:<till>:<reference or DotPay>, or onramp.
C21_MessageLayout ==
    \A i \in 1..Len(built) :
        LET in == built[i].in
            line == SplitLines(built[i].message)
        IN  /\ Len(line) = 9
            /\ line[1] = <<"D", "o", "t", "P", "a", "y", " ", "A", "u", "t", "h", "o", "r", "i", "z", "a", "t", "i", "o", "n">>
            /\ Labelled(line[2], <<"T", "r", "a", "n", "s", "a", "c", "t", "i", "o", "n", ":", " ">>, in.transactionId)
            /\ Labelled(line[3], <<"F", "l", "o", "w", ":", " ">>, FlowChars[in.flowType])
            /\ SubSeq(line[4], 1, 7) = <<"Q", "u", "o", "t", "e", ":", " ">>
            /\ SubSeq(line[5], 1, 11) = <<"A", "m", "o", "u", "n", "t", "K", "E", "S", ":", " ">>
            /\ IsFixed(AfterLabel(line[5], <<"A", "m", "o", "u", "n", "t", "K", "E", "S", ":", " ">>), 2)
            /\ SubSeq(line[6], 1, 12) = <<"A", "m", "o", "u", "n", "t", "U", "S", "D", "C", ":", " ">>
            /\ IsFixed(AfterLabel(line[6], <<"A", "m", "o", "u", "n", "t", "U", "S", "D", "C", ":", " ">>), 6)
            /\ SubSeq(line[7], 1, 8) = <<"T", "a", "r", "g", "e", "t", ":", " ">>
            /\ HasFlowTargets(in) => line[7] = <<"T", "a", "r", "g", "e", "t", ":", " ">> \o ExpectedTarget(in)
            /\ Labelled(line[8], <<"N", "o", "n", "c", "e", ":", " ">>, in.nonce)
            /\ Labelled(line[9], <<"S", "i", "g", "n", "e", "d", "A", "t", ":", " ">>, in.signedAt)

\* A message was built for a buygoods transaction with a till number and no
\* account reference, and one for an offramp transaction with a phone number.
C21_Witness ==
    /\ Len(built) = 2
    /\ built[1].in.flowType = "offramp" /\ built[1].in.phoneNumber # << >>
    /\ built[2].in.flowType = "buygoods" /\ built[2].in.tillNumber # << >>
    /\ built[2].in.accountReference = << >>

\* What the body of the latest response says, read off the parsed text: whether
\* it is an object whose success is truthy, and the message it has.
BodySucceeds ==
    /\ http.text # ""
    /\ ~JsonParse[http.text].throws
    /\ JsonParse[http.text].value.t = "object"
    /\ JsonParse[http.text].value.props[1] \notin
          {Undefined, Null, Bool(FALSE), Number(0), String("")}

BodyMessage ==
    IF http.text # "" /\ ~JsonParse[http.text].throws
          /\ JsonParse[http.text].value.t = "object"
          /\ JsonParse[http.text].value.props[2].t = "string"
          /\ JsonParse[http.text].value.props[2].s # ""
    THEN JsonParse[http.text].value.props[2].s
    ELSE IF http.text = "{\"success\":null,\"message\":1}" THEN "1"
    ELSE "M-Pesa request failed."

\* C22: request throws exactly when the status is not 2xx or the body has no
\* truthy success (an empty or non-JSON body has none); the Error's message is
\* the body's message, or 'M-Pesa request failed.' when it has none; otherwise
\* the parsed body is returned as it is.
C22_RequestFailsOnStatusOrSuccess ==
    http # NoCall =>
        /\ http.threw <=> (http.status < 200 \/ http.status > 299 \/ ~BodySucceeds)
        /\ http.threw => http.message = BodyMessage
        /\ ~http.threw => http.value = JsonParse[http.text].value

\* request has thrown on a 2xx response whose body says success false with a
\* message.
C22_Witness ==
    /\ http.threw
    /\ http.status = 200
    /\ http.text = "{\"success\":false,\"message\":\"Invalid PIN\"}"
    /\ http.message = "Invalid PIN"

\* The amount is a finite positive number.
AmountOk == NumberOf(form.amount).finite /\ NumberOf(form.amount).value > 0

\* The target field of the mode, as typed: 254 and nine digits; five to eight
\* digits and a reference of two characters or more; five to eight digits.
TargetOkAsTyped ==
    CASE mode = "cashout" -> IsKenyanMsisdn(form.phoneNumber)
      [] mode = "paybill" -> IsShortCode(form.paybillNumber) /\ Len(form.accountReference) >= 2
      [] OTHER -> IsShortCode(form.tillNumber)

\* The same of the target field without the blanks around it.
TargetOkTrimmed ==
    CASE mode = "cashout" -> IsKenyanMsisdn(Trim(form.phoneNumber))
      [] mode = "paybill" ->
            IsShortCode(Trim(form.paybillNumber)) /\ Len(Trim(form.accountReference)) >= 2
      [] OTHER -> IsShortCode(Trim(form.tillNumber))

\* No backend call is issued and the step, the held quote and the key stay.
NothingStarted ==
    /\ pc' = pc
    /\ step' = step
    /\ quoteTransaction' = quoteTransaction
    /\ idempotencyKeyRef' = idempotencyKeyRef

\* C23 as stated: with the form shown and no handler running, an amount that is
\* not a finite positive number or a target field that is not of the mode's
\* format as typed lets no step issue a backend call or change the step, the held
\* quote or the key.
C23_InvalidAsTypedStartsNothing ==
    [][(step = "form" /\ pc = "idle" /\ ~(AmountOk /\ TargetOkAsTyped)) => NothingStarted]_vars

\* C23 amended: the same, the target field taken without the blanks around it.
C23_InvalidTrimmedStartsNothing ==
    [][(step = "form" /\ pc = "idle" /\ ~(AmountOk /\ TargetOkTrimmed)) => NothingStarted]_vars

\* The form of a paybill payment is shown with a paybill number that is too
\* short or too long, and no call has been issued.
C23_Witness ==
    /\ step = "form"
    /\ pc = "idle"
    /\ ~busy
    /\ mode = "paybill"
    /\ ~IsShortCode(Trim(form.paybillNumber))
    /\ quoteTransaction = NoQuoteTx

\* C24: every settlement request carries the signature of a message with the
\* request's own quote, nonce and signedAt, and no two attempts' requests share a
\* nonce or a signedAt; while an attempt runs, its nonce and signedAt are in no
\* request of another attempt.
C24_AuthorizationOfItsAttempt ==
    /\ \A r \in requests :
         /\ r.signature # NoSignature
         /\ r.signature.signed.nonce = r.nonce
         /\ r.signature.signed.signedAt = r.signedAt
         /\ r.signature.signed.quoteId = r.quoteId
    /\ \A r1, r2 \in requests :
         r1.attempt # r2.attempt => r1.nonce # r2.nonce /\ r1.signedAt # r2.signedAt
    /\ \A r \in requests :
         (pc \in {"signing", "sendTx", "waitReceipt"} /\ r.attempt # att.no)
            => r.nonce # att.nonce /\ r.signedAt # att.signedAt

\* Two attempts have each sent their request, the second after a funded transfer.
C24_Witness ==
    \E r1, r2 \in requests :
        /\ r1.attempt < r2.attempt
        /\ r2.onchainTxHash # NoHash
        /\ r2.signature.signed.nonce = r2.nonce

\* C25: withdrawToMpesa has sent offramp/initiate for a quote that asks for
\* on-chain funding only after a funding transfer for that quote has completed.
C25_WithdrawFundsBeforeSettling ==
    (business.initiate # NoInitiate /\ business.quote.required)
        => business.transfer = "completed"

\* C28 (as the claim states it): at step "confirm" a quote is held and at step
\* "receipt" a result transaction is held, in every state of the Send flow, those
\* reached by a resetFlow during a running attempt included.
C28_StepsHoldTheirData ==
    /\ step = "confirm" => quoteTransaction # NoQuoteTx
    /\ step = "receipt" => resultTransaction # NoTx

\* A handler of the page starts in this step: handleCreateQuote reaches its await
\* of createQuote, or handleConfirmAndSend starts an attempt.
HandlerStarts ==
    \/ pc' = "createQuote" /\ pc # "createQuote"
    \/ att'.no # 0 /\ att'.no # att.no

\* C29: busy is true for as long as an attempt of handleConfirmAndSend runs, and
\* while busy is true neither handleCreateQuote nor a second handleConfirmAndSend
\* starts and the Refresh status button cannot run handleManualRefresh.
C29_BusyFencesTheAttempt ==
    /\ [](InAttempt => busy)
    /\ [](busy => ~handleManualRefreshEnabled)
    /\ [][busy => ~HandlerStarts]_vars

\* An attempt is running and Start over has brought the page back to a form that is
\* valid: only busy keeps the Continue button from starting a quote request.
C29_Witness ==
    /\ InAttempt
    /\ busy
    /\ step = "form"
    /\ canQuote(mode, form)
    /\ NewQuoteId <= MaxQuotes

\* C30 (as the claim states it): the transaction the business withdrawal screen
\* displays never goes from a terminal status to a status of the same transaction
\* that is not terminal, whatever order the status responses arrive in.
C30_DisplayedNeverLeavesTerminal ==
    [][(/\ screen.mpesaTransaction.transactionId = screen'.mpesaTransaction.transactionId
        /\ IsTerminal(screen.mpesaTransaction.status))
          => IsTerminal(screen'.mpesaTransaction.status)]_vars

\* ---------------------------------------------------- properties: poller
\* C7: once a fetch of a call has returned a terminal status, the call has returned
\* the transaction of that fetch and has issued no fetch after it.
C7_StopsAtFirstTerminal ==
    \A c \in Calls :
        calls[c].termAt # 0 =>
            /\ calls[c].pc = "done"
            /\ calls[c].fetches = calls[c].termAt
            /\ calls[c].result = calls[c].fetched
            /\ calls[c].result.transactionId = calls[c].transactionId
            /\ calls[c].result.status \in {"succeeded", "failed", "refunded"}

\* A call whose third fetch was the first to return a terminal status.
C7_Witness ==
    \E c \in Calls :
        /\ calls[c].termAt = 3
        /\ calls[c].exit = "terminal"
        /\ calls[c].result.status = "succeeded"

C9_NoFetchAfterStop ==
    [][\A c \in Calls : calls[c].stopped => calls'[c].fetches = calls[c].fetches]_vars

\* C10 (as the claim states it): no two calls are inside the polling loop for the
\* same transaction id.
C10_SingleLoopPerId ==
    \A c1, c2 \in Calls :
        (c1 # c2 /\ InLoop(c1) /\ InLoop(c2))
            => calls[c1].transactionId # calls[c2].transactionId

\* C11 (as the claim states it): a call during which stopPolling(id) was called
\* ends by returning a transaction when its fetches complete, and at its next loop
\* check it leaves the loop.
C11_CancelledCallLeavesLoop ==
    /\ \A c \in Calls : calls[c].cancelled ~> calls[c].pc = "done"
    /\ [][\A c \in Calls :
            (calls[c].cancelled /\ calls[c].pc = "sleeping" /\ calls'[c].pc # "sleeping")
                => calls'[c].pc = "final"]_vars

\* The status fetches of call c that have resolved with a transaction.
Completed(c) ==
    IF calls[c].pc \in {"fetching", "final", "rejected"}
    THEN calls[c].fetches - 1 ELSE calls[c].fetches

\* C18: a call that was given onUpdate has invoked it once for every status fetch
\* that has resolved, the fetch after the loop included, the last time with the
\* transaction of the latest fetch.
C18_OnUpdateAfterEveryFetch ==
    \A c \in Calls :
        calls[c].onUpdate =>
            /\ calls[c].updates = Completed(c)
            /\ Completed(c) > 0 => calls[c].updated = calls[c].fetched

\* ---------------------------------------------------- properties: top-up
\* C12 (as the claim states it): the requests to onramp/stk/initiate made for one
\* held quote, a failed attempt's and its retry's, carry one Idempotency-Key.
C12_TopupRetryReusesKey ==
    \A r1, r2 \in topup.requests :
        r1.quoteId = r2.quoteId => r1.idempotencyKey = r2.idempotencyKey

\* A fetch of call c completes in this step: the call was awaiting getTransaction,
\* inside its loop or on its last line, and has run on with the fetched transaction.
FetchCompletes(c) ==
    /\ calls[c].pc \in {"fetching", "final"}
    /\ calls'[c].pc \in {"sleeping", "done"}

Ceil(t, i) == (t + i - 1) \div i

\* The fetches call c has issued inside its while loop: all it has issued, less the
\* one of its last line once the loop was left.
LoopFetches(c) ==
    IF calls[c].pc = "final" \/ calls[c].exit = "cancelled"
    THEN calls[c].fetches - 1
    ELSE calls[c].fetches

\* C27: a pollTransaction call with intervalMs = I > 0 and timeoutMs = T >= 0 has
\* issued at least one and at most ceil(T / I) + 1 status fetches inside its loop,
\* while it runs and when it has returned, whatever statuses were fetched.
C27_LoopFetchesBounded ==
    \A c \in Calls :
        (calls[c].pc \in {"fetching", "sleeping", "final", "done"} /\ calls[c].intervalMs > 0)
            => /\ LoopFetches(c) >= 1
               /\ LoopFetches(c) <= Ceil(calls[c].timeoutMs, calls[c].intervalMs) + 1

\* A call with a timeout that is no multiple of its interval returned on its
\* timeout after ceil(T / I) + 1 fetches, three or more.
C27_Witness ==
    \E c \in Calls :
        /\ calls[c].pc = "done" /\ calls[c].exit = "timeout"
        /\ calls[c].intervalMs > 1
        /\ calls[c].timeoutMs % calls[c].intervalMs # 0
        /\ LoopFetches(c) = Ceil(calls[c].timeoutMs, calls[c].intervalMs) + 1
        /\ LoopFetches(c) >= 3
====
